---------------------------- MODULE Spec2Model ----------------------------
(***************************************************************************)
(* A model of the zdopt server runtime: the pooled-object wrapper          *)
(* (PObject), the lock-free MessageQueue of the actor package and the      *)
(* GenericObjectPool with its hot cache.  Every component is built by its  *)
(* constructor action; a specification runs one component and leaves the   *)
(* others unbuilt.                                                         *)
(***************************************************************************)
EXTENDS Integers, Sequences, FiniteSets, TLC

VARIABLES
    \* ---- PObject (ObjectPool package) ----
    pobj,       \* copy -> the wrapper's fields, or <<>> before NewPObject
    plast,      \* the last completed PObject call (copy, op, result, state before)
    phist,      \* copy -> the successful calls on the wrapper, in order
    \* ---- MessageQueue (Actor package) ----
    q,          \* the queue's fields (head, tail, buffer, modMask), or <<>>
    prod,       \* the producer goroutine: position in Enqueue and its locals
    cons,       \* the consumer goroutine: position in Dequeue and its locals
    qlog,       \* what the calls returned: accepted and delivered messages
    \* ---- GenericObjectPool (ObjectPool package) ----
    gop,        \* the pool's fields (hotCache, sync.Pool contents), or <<>>
    warm,       \* the warm-up goroutine started by NewGenericObjectPool
    objs,       \* every object the factory made or a caller brought: its hook state
    call,       \* caller -> position in GetObj / ReleaseObj and its locals
    held,       \* caller -> the values the caller holds
    plog,       \* history of the pool: checkouts, releases, factory calls
    \* ---- Manager (ObjectPool package) ----
    mgr,        \* the manager's fields (mu, pools), or <<>> before NewManager
    mcall,      \* caller -> position in RegisterPool / GetPool and its locals
    mlog,       \* the completed calls of the manager, in order of return
    \* ---- BaseActor (Actor package) ----
    act,        \* the actor's fields and its processMessages goroutine, or <<>>
    hnd,        \* message -> the handler goroutine batchHandle started for it
    alog,       \* history of the actor: sends, cancellation, dispatched batches
    \* ---- Balancer (Actor package) ----
    bal,        \* the balancer's fields (workers with their inboxes, index), or <<>>
    sub,        \* the submitting goroutine: position in Submit and its locals
    blog,       \* history of the balancer: targets, placements, executed tasks
    \* ---- System and Group (Actor package) ----
    sys,        \* the system's fields (FuncgroupLock, groups), or <<>>
    scall,      \* caller -> position in AddGroupActors and its locals
    slog,       \* history of the system: groups made, tick loops started, returns
    sstop,      \* the goroutine that calls System.Stop: its position, the actors stopped
    \* ---- Group (Actor package) ----
    grp,        \* the group's fields (mu, actors), or <<>> before NewGroup
    tick,       \* the StartUpdate goroutine: position in the loop and its locals
    gcall,      \* caller -> position in AddActor and its locals
    upd,        \* actor -> the Update goroutines of the actor that are running
    glog,       \* history of the group: the ticks, what each dispatched
    \* ---- Balancer under several submitting goroutines (Actor package) ----
    cbal,       \* the balancer's fields (workers, index, ctx), or <<>>
    cwk,        \* worker -> its inbox and the state of its run loop
    csub,       \* caller -> position in Submit / expandWorkers and its locals
    clog,       \* history: tasks submitted, placed and run, workers created
    \* ---- ObjectPool with a free list (ObjectPool package) ----
    fl,         \* the pool's fields (pool, FreeList, mu), or <<>>
    fcall,      \* caller -> position in GetObj / ReleaseObj and its locals
    fheld,      \* caller -> the wrappers whose value GetObj gave it, not yet released
    flog,       \* history: what each GetObj returned, calls made
    \* ---- KeyFrame, the keyframe pool and ZTimer (Timer package) ----
    kfp,        \* ObjectPoolManager and the keyframe pool, or <<>> before InitKeyFramePool
    kfs,        \* keyframe -> its fields (Time, Action, IsTrigger, mu)
    kcall,      \* caller -> position in the call it is in and its locals
    krefs,      \* caller -> the keyframes GetKeyFrame has returned to it
    klog,       \* history: what the last GetKeyFrame, ReleaseKeyFrame, AddKeyFrame, StopTimer returned
    zt          \* the timer's fields, or <<>> before NewZTimer

pobjVars == <<pobj, plast, phist>>
queueVars == <<q, prod, cons, qlog>>
poolVars == <<gop, warm, objs, call, held, plog>>
mgrVars == <<mgr, mcall, mlog>>
actorVars == <<act, hnd, alog>>
balVars == <<bal, sub, blog>>
sysVars == <<sys, scall, slog, sstop>>
groupVars == <<grp, tick, gcall, upd, glog>>
concVars == <<cbal, cwk, csub, clog>>
freeVars == <<fl, fcall, fheld, flog>>
timerVars == <<kfp, kfs, kcall, krefs, klog, zt>>
vars == <<pobj, plast, phist, q, prod, cons, qlog, gop, warm, objs, call, held, plog,
          mgr, mcall, mlog, act, hnd, alog, bal, sub, blog, sys, scall, slog, sstop,
          grp, tick, gcall, upd, glog, cbal, cwk, csub, clog,
          fl, fcall, fheld, flog, kfp, kfs, kcall, krefs, klog, zt>>

(***************************************************************************)
(* Bounds of the model.                                                    *)
(***************************************************************************)
MaxHist == 4          \* successful calls recorded per wrapper
MaxQueueExp == 2      \* queue sizes 2^0 .. 2^MaxQueueExp
MaxQueueOps == 3      \* calls of each of Enqueue and Dequeue
MaxCache == 2         \* hot-cache capacities 1 .. MaxCache
MaxObjs == 4          \* objects the factory may make
MaxMgrOps == 3        \* calls of RegisterPool and GetPool together
MaxMsgs == 3          \* messages sent to the mailbox
batchSize == 2        \* messages per full batch (64 in base.go:56, scaled down)
MaxCPU == 4           \* runtime.NumCPU() is 1 .. MaxCPU
MaxInbox == 2         \* inbox capacities 1 .. MaxInbox (1024 in balancer.go:33)
MaxSubmits == 11      \* calls of Submit with a task
MaxRuns == 2          \* tasks the workers take from their inboxes and run
MaxCreators == 2      \* actor factories passed to one AddGroupActors call
MaxActors == 3        \* actors added to one group
MaxTicks == 2         \* ticks of one group's ticker
MaxConcCPU == 1       \* runtime.NumCPU() is 1 .. MaxConcCPU under several submitters
MaxConcSubmits == 3   \* calls of Submit by the submitters together
MaxWrappers == 3      \* wrappers one free-list pool makes
MaxFree == 2          \* free-list channel capacities 1 .. MaxFree
MaxFlOps == 4         \* calls of AddObj, GetObj and ReleaseObj on the free-list pool
MaxKeyFrames == 2     \* keyframes the factory of the keyframe pool makes
MaxKfTime == 2        \* keyframe times and timer offsets 0 .. MaxKfTime
KeyFrameCache == 1    \* hot-cache capacity of the keyframe pool (100 in part_001:235, scaled down)
MaxKfOps == 4         \* calls the application makes on keyframes
MaxTimerOps == 3      \* calls made on the timer
MaxDelta == 2         \* deltaTime of a tick, 1 .. MaxDelta
MaxAsync == 2         \* goroutines of safeStop / asyncResetKeyFrames waiting to start
MaxPoolOps == 4       \* GetObj / ReleaseObj calls recorded

(***************************************************************************)
(*                              PObject                                    *)
(*                                                                         *)
(* The repository holds two copies of the wrapper: the one in              *)
(* object_pool_manager.go and the one in pobject.go.  Both are modelled;   *)
(* they differ in the guard of ReleaseObj.                                 *)
(***************************************************************************)
Copies == {"manager", "pobject"}

\* The callbacks a caller may pass; "nil" is Go's nil func.
Callbacks == {"nil", "cbA", "cbB"}

\* The values a wrapper may hold or be handed.
Dates == {"d1", "d2"}

\* NewPObject(date): the wrapper is created not in use, with no callbacks.
NewPObject(date) ==
    [date |-> date, isUsing |-> FALSE, init |-> "nil", callback |-> "nil"]

\* A faulty GetObj: the in-use guard is dropped.
PObject_GetObj_NoGuard(p, init, callback) ==
    [p |-> [p EXCEPT !.isUsing = TRUE, !.init = init, !.callback = callback],
     ok |-> TRUE,
     ret |-> <<p.date>>,
     invoked |-> IF init # "nil" THEN <<[fn |-> init, arg |-> p.date]>> ELSE <<>>]

\* PObject.GetObj, under p.mu: fails on a wrapper in use; otherwise marks it
\* in use, stores both callbacks and runs init on the wrapped value.
PObject_GetObj(p, init, callback) ==
    IF p.isUsing
    THEN [p |-> p, ok |-> FALSE, ret |-> <<>>, invoked |-> <<>>]
    ELSE [p |-> [p EXCEPT !.isUsing = TRUE, !.init = init, !.callback = callback],
          ok |-> TRUE,
          ret |-> <<p.date>>,
          invoked |-> IF init # "nil"
                      THEN <<[fn |-> init, arg |-> p.date]>>
                      ELSE <<>>]

\* The copy of GetObj in pobject.go (the same statements).
PObject_GetObj_pobject(p, init, callback) ==
    IF p.isUsing
    THEN [p |-> p, ok |-> FALSE, ret |-> <<>>, invoked |-> <<>>]
    ELSE [p |-> [p EXCEPT !.isUsing = TRUE, !.init = init, !.callback = callback],
          ok |-> TRUE,
          ret |-> <<p.date>>,
          invoked |-> IF init # "nil"
                      THEN <<[fn |-> init, arg |-> p.date]>>
                      ELSE <<>>]

\* PObject.ReleaseObj of object_pool_manager.go, under p.mu: fails on a wrapper
\* that is not in use; otherwise clears the flag, runs the stored callback on
\* the value handed in and clears both callbacks.
PObject_ReleaseObj(p, obj) ==
    IF ~p.isUsing
    THEN [p |-> p, ok |-> FALSE, invoked |-> <<>>]
    ELSE [p |-> [p EXCEPT !.isUsing = FALSE, !.init = "nil", !.callback = "nil"],
          ok |-> TRUE,
          invoked |-> IF p.callback # "nil"
                      THEN <<[fn |-> p.callback, arg |-> obj]>>
                      ELSE <<>>]

\* PObject.ReleaseObj of pobject.go: the guard reads "if p.isUsing", so the
\* call fails on a wrapper in use and goes through on one that is not.
PObject_ReleaseObj_pobject(p, obj) ==
    IF p.isUsing
    THEN [p |-> p, ok |-> FALSE, invoked |-> <<>>]
    ELSE [p |-> [p EXCEPT !.isUsing = FALSE, !.init = "nil", !.callback = "nil"],
          ok |-> TRUE,
          invoked |-> IF p.callback # "nil"
                      THEN <<[fn |-> p.callback, arg |-> obj]>>
                      ELSE <<>>]

NoCall == [copy |-> "none", op |-> "none", ok |-> FALSE, before |-> <<>>,
           invoked |-> <<>>, ret |-> <<>>]

PObjInit ==
    /\ pobj = [c \in Copies |-> <<>>]
    /\ plast = NoCall
    /\ phist = [c \in Copies |-> <<>>]

\* A caller makes the wrapper of copy c.
CallNewPObject(c, date) ==
    /\ pobj[c] = <<>>
    /\ pobj' = [pobj EXCEPT ![c] = NewPObject(date)]
    /\ UNCHANGED <<plast, phist>>
    /\ UNCHANGED <<queueVars, poolVars, mgrVars, actorVars, balVars, sysVars, groupVars, concVars, freeVars, timerVars>>

\* A caller calls GetObj(init, callback) on the wrapper of copy c.
CallGetObj(c, init, callback) ==
    /\ pobj[c] # <<>>
    /\ Len(phist[c]) < MaxHist
    /\ LET r == IF c = "manager"
                THEN PObject_GetObj(pobj[c], init, callback)
                ELSE PObject_GetObj_pobject(pobj[c], init, callback)
       IN /\ pobj' = [pobj EXCEPT ![c] = r.p]
          /\ plast' = [copy |-> c, op |-> "GetObj", ok |-> r.ok,
                       before |-> pobj[c], invoked |-> r.invoked, ret |-> r.ret]
          /\ phist' = IF r.ok
                      THEN [phist EXCEPT ![c] = Append(@, "GetObj")]
                      ELSE phist
    /\ UNCHANGED <<queueVars, poolVars, mgrVars, actorVars, balVars, sysVars, groupVars, concVars, freeVars, timerVars>>

\* A caller calls ReleaseObj(obj) on the wrapper of copy c.
CallReleaseObj(c, obj) ==
    /\ pobj[c] # <<>>
    /\ Len(phist[c]) < MaxHist
    /\ LET r == IF c = "manager"
                THEN PObject_ReleaseObj(pobj[c], obj)
                ELSE PObject_ReleaseObj_pobject(pobj[c], obj)
       IN /\ pobj' = [pobj EXCEPT ![c] = r.p]
          /\ plast' = [copy |-> c, op |-> "ReleaseObj", ok |-> r.ok,
                       before |-> pobj[c], invoked |-> r.invoked, ret |-> <<>>]
          /\ phist' = IF r.ok
                      THEN [phist EXCEPT ![c] = Append(@, "ReleaseObj")]
                      ELSE phist
    /\ UNCHANGED <<queueVars, poolVars, mgrVars, actorVars, balVars, sysVars, groupVars, concVars, freeVars, timerVars>>

PObjNext ==
    \/ \E c \in Copies, d \in Dates : CallNewPObject(c, d)
    \/ \E c \in Copies, i \in Callbacks, cb \in Callbacks : CallGetObj(c, i, cb)
    \/ \E c \in Copies, d \in Dates : CallReleaseObj(c, d)


(***************************************************************************)
(*                            MessageQueue                                 *)
(*                                                                         *)
(* One producer goroutine calls Enqueue and one consumer goroutine calls   *)
(* Dequeue.  Each atomic load and store of a cursor is a step of its own,  *)
(* so the two calls interleave as the Go memory model allows.              *)
(***************************************************************************)

\* 2^n.
RECURSIVE Pow2(_)
Pow2(n) == IF n = 0 THEN 1 ELSE 2 * Pow2(n - 1)

\* The sizes a queue is built with: the powers of two up to 2^MaxQueueExp.
QueueSizes == {Pow2(e) : e \in 0..MaxQueueExp}

\* a & b on naturals.
RECURSIVE BitAnd(_, _)
BitAnd(a, b) ==
    IF a = 0 \/ b = 0
    THEN 0
    ELSE (a % 2) * (b % 2) + 2 * BitAnd(a \div 2, b \div 2)

\* x & ^uint64(1): every bit of x but the lowest.
AndNotOne(x) == x - (x % 2)

\* NewMessageQueue(size): make([]interface{}, 0, size) is a slice of length 0
\* (capacity size), and modMask is (size-1) with its lowest bit cleared.
NewMessageQueue(size) ==
    [size |-> size, head |-> 0, tail |-> 0,
     buffer |-> <<>>,
     modMask |-> AndNotOne(size - 1)]

ProdIdle == [pc |-> "idle", msg |-> 0, tail |-> 0, next |-> 0]
ConsIdle == [pc |-> "idle", head |-> 0, msg |-> <<>>]

QueueInit ==
    /\ q = <<>>
    /\ prod = ProdIdle
    /\ cons = ConsIdle
    /\ qlog = [enq |-> <<>>, deq |-> <<>>, enqCalls |-> 0, deqCalls |-> 0]

\* The actor package builds the queue.
CallNewMessageQueue(size) ==
    /\ q = <<>>
    /\ q' = NewMessageQueue(size)
    /\ UNCHANGED <<prod, cons, qlog>>
    /\ UNCHANGED <<pobjVars, poolVars, mgrVars, actorVars, balVars, sysVars, groupVars, concVars, freeVars, timerVars>>

\* The producer calls Enqueue(msg); the messages are numbered by call.
EnqueueCall ==
    /\ q # <<>>
    /\ prod.pc = "idle"
    /\ qlog.enqCalls < MaxQueueOps
    /\ prod' = [pc |-> "loadTail", msg |-> qlog.enqCalls + 1, tail |-> 0, next |-> 0]
    /\ qlog' = [qlog EXCEPT !.enqCalls = @ + 1]
    /\ UNCHANGED <<q, cons>>
    /\ UNCHANGED <<pobjVars, poolVars, mgrVars, actorVars, balVars, sysVars, groupVars, concVars, freeVars, timerVars>>

\* tail := atomic.LoadUint64(&q.tail); next := tail + 1
EnqueueLoadTail ==
    /\ prod.pc = "loadTail"
    /\ prod' = [prod EXCEPT !.pc = "check", !.tail = q.tail, !.next = q.tail + 1]
    /\ UNCHANGED <<q, cons, qlog>>
    /\ UNCHANGED <<pobjVars, poolVars, mgrVars, actorVars, balVars, sysVars, groupVars, concVars, freeVars, timerVars>>

\* The rest of Enqueue, one atomic step at a time:
\*   check:   if (next & q.modMask) == atomic.LoadUint64(&q.head) return false
\*   store:   q.buffer[tail & q.modMask] = msg   (panics when out of range)
\*   publish: atomic.StoreUint64(&q.tail, next); return true
EnqueueRest(qq, p) ==
    CASE p.pc = "check" ->
            IF BitAnd(p.next, qq.modMask) = qq.head
            THEN [q |-> qq, pc |-> "idle", done |-> TRUE, ok |-> FALSE,
                  full |-> p.tail - qq.head >= qq.size]
            ELSE [q |-> qq, pc |-> "store", done |-> FALSE, ok |-> FALSE,
                  full |-> FALSE]
      [] p.pc = "store" ->
            LET idx == BitAnd(p.tail, qq.modMask)
            IN IF idx >= Len(qq.buffer)
               THEN [q |-> qq, pc |-> "panic", done |-> FALSE, ok |-> FALSE,
                     full |-> FALSE]
               ELSE [q |-> [qq EXCEPT !.buffer[idx + 1] = <<p.msg>>],
                     pc |-> "publish", done |-> FALSE, ok |-> FALSE,
                     full |-> FALSE]
      [] OTHER ->
            [q |-> [qq EXCEPT !.tail = p.next], pc |-> "idle", done |-> TRUE,
             ok |-> TRUE, full |-> FALSE]

\* The producer takes its next step after the load of the tail.
EnqueueStep ==
    /\ prod.pc \in {"check", "store", "publish"}
    /\ LET r == EnqueueRest(q, prod)
       IN /\ q' = r.q
          /\ prod' = [prod EXCEPT !.pc = r.pc]
          /\ qlog' = IF r.done
                     THEN [qlog EXCEPT !.enq = Append(@,
                              [msg |-> prod.msg, ok |-> r.ok, full |-> r.full,
                               before |-> <<q.head, q.tail, q.buffer>>,
                               after |-> <<r.q.head, r.q.tail, r.q.buffer>>])]
                     ELSE qlog
    /\ UNCHANGED cons
    /\ UNCHANGED <<pobjVars, poolVars, mgrVars, actorVars, balVars, sysVars, groupVars, concVars, freeVars, timerVars>>

\* The consumer calls Dequeue().
DequeueCall ==
    /\ q # <<>>
    /\ cons.pc = "idle"
    /\ qlog.deqCalls < MaxQueueOps
    /\ cons' = [pc |-> "loadHead", head |-> 0, msg |-> <<>>]
    /\ qlog' = [qlog EXCEPT !.deqCalls = @ + 1]
    /\ UNCHANGED <<q, prod>>
    /\ UNCHANGED <<pobjVars, poolVars, mgrVars, actorVars, balVars, sysVars, groupVars, concVars, freeVars, timerVars>>

\* head := atomic.LoadUint64(&q.head)
DequeueLoadHead ==
    /\ cons.pc = "loadHead"
    /\ cons' = [cons EXCEPT !.pc = "loadTail", !.head = q.head]
    /\ UNCHANGED <<q, prod, qlog>>
    /\ UNCHANGED <<pobjVars, poolVars, mgrVars, actorVars, balVars, sysVars, groupVars, concVars, freeVars, timerVars>>

\* A faulty rest of Dequeue: the empty test is skipped and the head is
\* published in any case.
DequeueRest_NoEmptyTest(qq, c) ==
    [q |-> [qq EXCEPT !.head = c.head + 1], pc |-> "idle", msg |-> <<>>,
     done |-> TRUE, ok |-> TRUE, empty |-> c.head = qq.tail]

\* The rest of Dequeue, one atomic step at a time:
\*   loadTail: tail := atomic.LoadUint64(&q.tail); if head == tail return nil, false
\*   read:     msg := q.buffer[head & q.modMask]   (panics when out of range)
\*   publish:  atomic.StoreUint64(&q.head, head+1); return msg, true
DequeueRest(qq, c) ==
    CASE c.pc = "loadTail" ->
            IF c.head = qq.tail
            THEN [q |-> qq, pc |-> "idle", msg |-> <<>>, done |-> TRUE,
                  ok |-> FALSE, empty |-> TRUE]
            ELSE [q |-> qq, pc |-> "read", msg |-> <<>>, done |-> FALSE,
                  ok |-> FALSE, empty |-> FALSE]
      [] c.pc = "read" ->
            LET idx == BitAnd(c.head, qq.modMask)
            IN IF idx >= Len(qq.buffer)
               THEN [q |-> qq, pc |-> "panic", msg |-> <<>>, done |-> FALSE,
                     ok |-> FALSE, empty |-> FALSE]
               ELSE [q |-> qq, pc |-> "publish", msg |-> qq.buffer[idx + 1],
                     done |-> FALSE, ok |-> FALSE, empty |-> FALSE]
      [] OTHER ->
            [q |-> [qq EXCEPT !.head = c.head + 1], pc |-> "idle", msg |-> c.msg,
             done |-> TRUE, ok |-> TRUE, empty |-> FALSE]

\* The consumer takes its next step after the load of the head.
DequeueStep ==
    /\ cons.pc \in {"loadTail", "read", "publish"}
    /\ LET r == DequeueRest(q, cons)
       IN /\ q' = r.q
          /\ cons' = [cons EXCEPT !.pc = r.pc, !.msg = r.msg]
          /\ qlog' = IF r.done
                     THEN [qlog EXCEPT !.deq = Append(@,
                              [msg |-> r.msg, ok |-> r.ok, empty |-> r.empty,
                               before |-> <<q.head, q.tail>>,
                               after |-> <<r.q.head, r.q.tail>>])]
                     ELSE qlog
    /\ UNCHANGED prod
    /\ UNCHANGED <<pobjVars, poolVars, mgrVars, actorVars, balVars, sysVars, groupVars, concVars, freeVars, timerVars>>

QueueNext ==
    \/ \E size \in QueueSizes : CallNewMessageQueue(size)
    \/ EnqueueCall
    \/ EnqueueLoadTail
    \/ EnqueueStep
    \/ DequeueCall
    \/ DequeueLoadHead
    \/ DequeueStep


(***************************************************************************)
(*                          GenericObjectPool                              *)
(*                                                                         *)
(* The pool of object_pool_manager.go: a buffered channel (hotCache) in    *)
(* front of a sync.Pool.  Callers are goroutines; the channel operations   *)
(* of a select, sync.Pool's Get and Put, and the hooks of an object are    *)
(* the atomic steps.                                                       *)
(***************************************************************************)
Callers == {"c1", "c2"}

\* Objects: 1..MaxObjs are made by the factory, in order.  ForeignObj is a T
\* made outside the pool; OtherTypeObj is an ObjectBase that is not a T.
ForeignObj == MaxObjs + 1
OtherTypeObj == MaxObjs + 2
AllObjs == 1..(MaxObjs + 2)

\* The sequence s without its i-th element.
RemoveAt(s, i) == [j \in 1..(Len(s) - 1) |-> IF j < i THEN s[j] ELSE s[j + 1]]

\* The elements of a sequence.
Range(s) == {s[i] : i \in 1..Len(s)}

\* NewGenericObjectPool(factory, cacheSize): an empty sync.Pool whose New is
\* the factory, and an empty channel of capacity cacheSize.
NewGenericObjectPool(cacheSize) ==
    [cacheSize |-> cacheSize, hotCache |-> <<>>, pool |-> <<>>]

\* A faulty warm-up send: one slot of the channel is left unfilled.
WarmUpSend_OneShort(g, v) ==
    IF Len(g.hotCache) + 1 < g.cacheSize
    THEN [g EXCEPT !.hotCache = Append(@, v)]
    ELSE g

\* One iteration of the warm-up goroutine:
\*   select { case pool.hotCache <- factory(): default: break }
\* The made object goes to the channel if it has room and is dropped if not.
WarmUpSend(g, v) ==
    IF Len(g.hotCache) < g.cacheSize
    THEN [g EXCEPT !.hotCache = Append(@, v)]
    ELSE g

\* A faulty select of GetObj: the channel is never tried.
GetObj_select_SkipCache(g) ==
    [g |-> g, obj |-> <<>>, hit |-> FALSE]

\* A faulty select of GetObj: the object is read but stays in the channel.
GetObj_select_Peek(g) ==
    IF Len(g.hotCache) > 0
    THEN [g |-> g, obj |-> <<Head(g.hotCache)>>, hit |-> TRUE]
    ELSE [g |-> g, obj |-> <<>>, hit |-> FALSE]

\* GetObj's select: case obj := <-gop.hotCache takes the channel's first
\* object when there is one; default is taken on an empty channel.
GetObj_select(g) ==
    IF Len(g.hotCache) > 0
    THEN [g |-> [g EXCEPT !.hotCache = Tail(@)], obj |-> <<Head(g.hotCache)>>,
          hit |-> TRUE]
    ELSE [g |-> g, obj |-> <<>>, hit |-> FALSE]

\* ReleaseObj's select: case gop.hotCache <- obj.(T) on a channel with room;
\* default (sent = FALSE, gop.pool.Put follows) on a full one.
ReleaseObj_select(g, v) ==
    IF Len(g.hotCache) < g.cacheSize
    THEN [g |-> [g EXCEPT !.hotCache = Append(@, v)], sent |-> TRUE]
    ELSE [g |-> g, sent |-> FALSE]

CallIdle == [pc |-> "idle", op |-> "none", obj |-> <<>>, k |-> 0,
             hit |-> FALSE, nonEmpty |-> FALSE, src |-> "none",
             onGet |-> 0, onRelease |-> 0, err |-> "none",
             legit |-> TRUE, changed |-> FALSE]

PoolInit ==
    /\ gop = <<>>
    /\ warm = [pc |-> "none", i |-> 0]
    /\ objs = [o \in AllObjs |-> IF o > MaxObjs THEN "new" ELSE "unmade"]
    /\ call = [c \in Callers |-> CallIdle]
    /\ held = [c \in Callers |-> {}]
    /\ plog = [gets |-> <<>>, nRels |-> 0, factory |-> 0, early |-> FALSE,
               misuse |-> FALSE]

\* Calls started so far.
PoolOps == Len(plog.gets) + plog.nRels

\* NewGenericObjectPool builds the pool and starts the warm-up goroutine.
CallNewGenericObjectPool(cacheSize) ==
    /\ gop = <<>>
    /\ gop' = NewGenericObjectPool(cacheSize)
    /\ warm' = [pc |-> "run", i |-> 0]
    /\ UNCHANGED <<objs, call, held, plog>>
    /\ UNCHANGED <<pobjVars, queueVars, mgrVars, actorVars, balVars, sysVars, groupVars, concVars, freeVars, timerVars>>

\* The warm-up goroutine: for i := 0; i < cacheSize; i++ { select ... }.
\* factory() is evaluated before the select chooses.
WarmUpStep ==
    /\ warm.pc = "run"
    /\ IF warm.i < gop.cacheSize
       THEN /\ plog.factory < MaxObjs
            /\ LET v == plog.factory + 1
               IN /\ gop' = WarmUpSend(gop, v)
                  /\ objs' = [objs EXCEPT ![v] = "new"]
                  /\ plog' = [plog EXCEPT !.factory = v]
                  /\ warm' = [warm EXCEPT !.i = @ + 1]
       ELSE /\ warm' = [warm EXCEPT !.pc = "done"]
            /\ UNCHANGED <<gop, objs, plog>>
    /\ UNCHANGED <<call, held>>
    /\ UNCHANGED <<pobjVars, queueVars, mgrVars, actorVars, balVars, sysVars, groupVars, concVars, freeVars, timerVars>>

\* Caller c calls GetObj: the select.
GetObjCall(c) ==
    /\ gop # <<>>
    /\ call[c].pc = "idle"
    /\ PoolOps < MaxPoolOps
    /\ LET r == GetObj_select(gop)
           k == Len(plog.gets) + 1
       IN /\ gop' = r.g
          /\ call' = [call EXCEPT ![c] =
                        [CallIdle EXCEPT !.pc = IF r.hit THEN "onGet" ELSE "poolGet",
                                         !.op = "GetObj", !.obj = r.obj, !.k = k,
                                         !.hit = r.hit,
                                         !.nonEmpty = Len(gop.hotCache) > 0,
                                         !.src = IF r.hit THEN "hot" ELSE "miss"]]
          /\ plog' = [plog EXCEPT
                        !.gets = Append(@, [src |-> IF r.hit THEN "hot" ELSE "miss",
                                            relsBefore |-> plog.nRels]),
                        !.early = @ \/ warm.pc # "done"]
    /\ UNCHANGED <<warm, objs, held>>
    /\ UNCHANGED <<pobjVars, queueVars, mgrVars, actorVars, balVars, sysVars, groupVars, concVars, freeVars, timerVars>>

\* A faulty overflow tier whose Get waits until some object has been put
\* and never calls the factory.
GetObjPoolGet_WaitsForPut(c) ==
    /\ call[c].pc = "poolGet"
    /\ \E i \in 1..Len(gop.pool) :
          /\ gop' = [gop EXCEPT !.pool = RemoveAt(@, i)]
          /\ call' = [call EXCEPT ![c].pc = "onGet", ![c].obj = <<gop.pool[i]>>,
                                  ![c].src = "pool"]
          /\ plog' = [plog EXCEPT !.gets[call[c].k].src = "pool"]
    /\ UNCHANGED <<warm, held, objs>>
    /\ UNCHANGED <<pobjVars, queueVars, mgrVars, actorVars, balVars, sysVars, groupVars, concVars, freeVars, timerVars>>

\* default branch of GetObj: obj := gop.pool.Get().(T).  sync.Pool hands out
\* any object put before, or calls New (the factory) - also when it holds
\* objects, since it may drop them or keep them out of reach of the caller.
GetObjPoolGet(c) ==
    /\ call[c].pc = "poolGet"
    /\ \/ \E i \in 1..Len(gop.pool) :
            /\ gop' = [gop EXCEPT !.pool = RemoveAt(@, i)]
            /\ call' = [call EXCEPT ![c].pc = "onGet", ![c].obj = <<gop.pool[i]>>,
                                    ![c].src = "pool"]
            /\ plog' = [plog EXCEPT !.gets[call[c].k].src = "pool"]
            /\ UNCHANGED objs
       \/ /\ plog.factory < MaxObjs
          /\ LET v == plog.factory + 1
             IN /\ call' = [call EXCEPT ![c].pc = "onGet", ![c].obj = <<v>>,
                                        ![c].src = "factory"]
                /\ objs' = [objs EXCEPT ![v] = "new"]
                /\ plog' = [plog EXCEPT !.factory = v,
                                        !.gets[call[c].k].src = "factory"]
                /\ UNCHANGED gop
    /\ UNCHANGED <<warm, held>>
    /\ UNCHANGED <<pobjVars, queueVars, mgrVars, actorVars, balVars, sysVars, groupVars, concVars, freeVars, timerVars>>

\* obj.OnGet(); return obj - on either branch of the select.
GetObjOnGet(c) ==
    /\ call[c].pc = "onGet"
    /\ LET v == call[c].obj[1]
       IN /\ objs' = [objs EXCEPT ![v] = "OnGet"]
          /\ held' = [held EXCEPT ![c] = @ \cup {v}]
          /\ call' = [call EXCEPT ![c].pc = "idle", ![c].onGet = @ + 1,
                                  ![c].err = "nil"]
    /\ UNCHANGED <<gop, warm, plog>>
    /\ UNCHANGED <<pobjVars, queueVars, mgrVars, actorVars, balVars, sysVars, groupVars, concVars, freeVars, timerVars>>

\* Caller c calls ReleaseObj(v) with a value it holds, or with one that was
\* never checked out (ForeignObj, OtherTypeObj).  obj.(T) is evaluated on
\* entering the select and panics on a value that is not a T.  No statement
\* of ReleaseObj calls obj.OnRelease().
ReleaseObjCall(c, v) ==
    /\ gop # <<>>
    /\ call[c].pc = "idle"
    /\ PoolOps < MaxPoolOps
    /\ v \in held[c] \/ (v > MaxObjs /\ \A d \in Callers : v \notin held[d])
    /\ held' = [held EXCEPT ![c] = @ \ {v}]
    /\ plog' = [plog EXCEPT !.nRels = @ + 1,
                            !.early = @ \/ warm.pc # "done",
                            !.misuse = @ \/ v \notin held[c]]
    /\ IF v = OtherTypeObj
       THEN /\ call' = [call EXCEPT ![c] =
                          [CallIdle EXCEPT !.pc = "panic", !.op = "ReleaseObj",
                                           !.obj = <<v>>, !.err = "panic",
                                           !.legit = v \in held[c]]]
            /\ UNCHANGED gop
       ELSE LET r == ReleaseObj_select(gop, v)
            IN /\ gop' = r.g
               /\ call' = [call EXCEPT ![c] =
                             [CallIdle EXCEPT !.pc = IF r.sent THEN "idle" ELSE "put",
                                              !.op = "ReleaseObj", !.obj = <<v>>,
                                              !.src = IF r.sent THEN "hot" ELSE "pool",
                                              !.err = IF r.sent THEN "nil" ELSE "none",
                                              !.legit = v \in held[c],
                                              !.changed = r.sent]]
    /\ UNCHANGED <<warm, objs>>
    /\ UNCHANGED <<pobjVars, queueVars, mgrVars, actorVars, balVars, sysVars, groupVars, concVars, freeVars, timerVars>>

\* default branch of ReleaseObj: gop.pool.Put(obj); return nil.
ReleaseObjPut(c) ==
    /\ call[c].pc = "put"
    /\ gop' = [gop EXCEPT !.pool = Append(@, call[c].obj[1])]
    /\ call' = [call EXCEPT ![c].pc = "idle", ![c].err = "nil", ![c].changed = TRUE]
    /\ UNCHANGED <<warm, objs, held, plog>>
    /\ UNCHANGED <<pobjVars, queueVars, mgrVars, actorVars, balVars, sysVars, groupVars, concVars, freeVars, timerVars>>

PoolNext ==
    \/ \E n \in 0..MaxCache : CallNewGenericObjectPool(n)
    \/ WarmUpStep
    \/ \E c \in Callers : GetObjCall(c)
    \/ \E c \in Callers : GetObjPoolGet(c)
    \/ \E c \in Callers : GetObjOnGet(c)
    \/ \E c \in Callers, v \in AllObjs : ReleaseObjCall(c, v)
    \/ \E c \in Callers : ReleaseObjPut(c)

(***************************************************************************)
(* Manager (object_pool_manager.go): the registry of pools by name.        *)
(* RegisterPool holds mu for writing from its first statement to its       *)
(* return, GetPool holds it for reading.                                   *)
(***************************************************************************)
PoolNames == {"bullet", "npc"}
PoolVals == {"poolA", "poolB"}

\* NewManager: an empty map; the zero RWMutex is unlocked.
NewManager == [mu |-> [w |-> <<>>, r |-> {}], pools |-> << >>]

\* A faulty lock that lets a writer in whoever holds it.
RWMutex_CanLock_Always(mu) == TRUE

\* sync.RWMutex: Lock is granted when no writer and no reader holds the lock.
RWMutex_CanLock(mu) == mu.w = <<>> /\ mu.r = {}

\* sync.RWMutex: RLock is granted when no writer holds the lock.
RWMutex_CanRLock(mu) == mu.w = <<>>

\* _, exists := opm.pools[name]
PoolExists(m, name) == name \in DOMAIN m.pools

\* opm.pools[name] = pool
PoolStore(m, name, pool) ==
    [m EXCEPT !.pools = [n \in (DOMAIN m.pools) \cup {name} |->
                            IF n = name THEN pool ELSE m.pools[n]]]

MgrIdle == [pc |-> "idle", op |-> "none", name |-> "none", pool |-> <<>>,
            overlap |-> FALSE]

ManagerInit ==
    /\ mgr = <<>>
    /\ mcall = [c \in Callers |-> MgrIdle]
    /\ mlog = <<>>

\* The calls started so far.
MgrOps == Len(mlog) + Cardinality({c \in Callers : mcall[c].pc # "idle"})

\* The entry a returning call leaves in the log.
MgrReturn(c, err, ret) ==
    Append(mlog, [c |-> c, op |-> mcall[c].op, name |-> mcall[c].name,
                  pool |-> mcall[c].pool, err |-> err, ret |-> ret,
                  overlap |-> mcall[c].overlap])

CallNewManager ==
    /\ mgr = <<>>
    /\ mgr' = NewManager
    /\ UNCHANGED <<mcall, mlog>>
    /\ UNCHANGED <<pobjVars, queueVars, poolVars, actorVars, balVars, sysVars, groupVars, concVars, freeVars, timerVars>>

\* Caller c calls RegisterPool(opm, name, pool).  overlap records that
\* another RegisterPool for the same name is in progress at that moment.
RegisterPoolCall(c, name, pool) ==
    /\ mgr # <<>>
    /\ mcall[c].pc = "idle"
    /\ MgrOps < MaxMgrOps
    /\ mcall' = [mcall EXCEPT ![c] =
                   [pc |-> "lock", op |-> "RegisterPool", name |-> name,
                    pool |-> <<pool>>,
                    overlap |-> \E d \in Callers \ {c} :
                                    /\ mcall[d].op = "RegisterPool"
                                    /\ mcall[d].pc # "idle"
                                    /\ mcall[d].name = name]]
    /\ UNCHANGED <<mgr, mlog>>
    /\ UNCHANGED <<pobjVars, queueVars, poolVars, actorVars, balVars, sysVars, groupVars, concVars, freeVars, timerVars>>

\* opm.mu.Lock()
RegisterPoolLock(c) ==
    /\ mcall[c].pc = "lock"
    /\ RWMutex_CanLock(mgr.mu)
    /\ mgr' = [mgr EXCEPT !.mu.w = <<c>>]
    /\ mcall' = [mcall EXCEPT ![c].pc = "exists"]
    /\ UNCHANGED mlog
    /\ UNCHANGED <<pobjVars, queueVars, poolVars, actorVars, balVars, sysVars, groupVars, concVars, freeVars, timerVars>>

\* if _, exists := opm.pools[name]; exists { return ErrPoolAlreadyRegistered }
\* - the deferred Unlock runs on return.
RegisterPoolExists(c) ==
    /\ mcall[c].pc = "exists"
    /\ IF PoolExists(mgr, mcall[c].name)
       THEN /\ mgr' = [mgr EXCEPT !.mu.w = <<>>]
            /\ mlog' = MgrReturn(c, "ErrPoolAlreadyRegistered", <<>>)
            /\ mcall' = [mcall EXCEPT ![c] = MgrIdle]
       ELSE /\ mcall' = [mcall EXCEPT ![c].pc = "store"]
            /\ UNCHANGED <<mgr, mlog>>
    /\ UNCHANGED <<pobjVars, queueVars, poolVars, actorVars, balVars, sysVars, groupVars, concVars, freeVars, timerVars>>

\* opm.pools[name] = pool; return nil - the deferred Unlock runs on return.
RegisterPoolStore(c) ==
    /\ mcall[c].pc = "store"
    /\ mgr' = [PoolStore(mgr, mcall[c].name, mcall[c].pool[1]) EXCEPT !.mu.w = <<>>]
    /\ mlog' = MgrReturn(c, "nil", <<>>)
    /\ mcall' = [mcall EXCEPT ![c] = MgrIdle]
    /\ UNCHANGED <<pobjVars, queueVars, poolVars, actorVars, balVars, sysVars, groupVars, concVars, freeVars, timerVars>>

\* Caller c calls GetPool(opm, name).
GetPoolCall(c, name) ==
    /\ mgr # <<>>
    /\ mcall[c].pc = "idle"
    /\ MgrOps < MaxMgrOps
    /\ mcall' = [mcall EXCEPT ![c] =
                   [MgrIdle EXCEPT !.pc = "rlock", !.op = "GetPool", !.name = name]]
    /\ UNCHANGED <<mgr, mlog>>
    /\ UNCHANGED <<pobjVars, queueVars, poolVars, actorVars, balVars, sysVars, groupVars, concVars, freeVars, timerVars>>

\* opm.mu.RLock()
GetPoolRLock(c) ==
    /\ mcall[c].pc = "rlock"
    /\ RWMutex_CanRLock(mgr.mu)
    /\ mgr' = [mgr EXCEPT !.mu.r = @ \cup {c}]
    /\ mcall' = [mcall EXCEPT ![c].pc = "load"]
    /\ UNCHANGED mlog
    /\ UNCHANGED <<pobjVars, queueVars, poolVars, actorVars, balVars, sysVars, groupVars, concVars, freeVars, timerVars>>

\* pool, exists := opm.pools[name]; if !exists { return nil, ErrPoolNotFound };
\* return pool, nil - the deferred RUnlock runs on return.
GetPoolLoad(c) ==
    /\ mcall[c].pc = "load"
    /\ mgr' = [mgr EXCEPT !.mu.r = @ \ {c}]
    /\ mlog' = IF PoolExists(mgr, mcall[c].name)
               THEN MgrReturn(c, "nil", <<mgr.pools[mcall[c].name]>>)
               ELSE MgrReturn(c, "ErrPoolNotFound", <<>>)
    /\ mcall' = [mcall EXCEPT ![c] = MgrIdle]
    /\ UNCHANGED <<pobjVars, queueVars, poolVars, actorVars, balVars, sysVars, groupVars, concVars, freeVars, timerVars>>

ManagerNext ==
    \/ CallNewManager
    \/ \E c \in Callers, name \in PoolNames, pool \in PoolVals :
          RegisterPoolCall(c, name, pool)
    \/ \E c \in Callers : RegisterPoolLock(c)
    \/ \E c \in Callers : RegisterPoolExists(c)
    \/ \E c \in Callers : RegisterPoolStore(c)
    \/ \E c \in Callers, name \in PoolNames : GetPoolCall(c, name)
    \/ \E c \in Callers : GetPoolRLock(c)
    \/ \E c \in Callers : GetPoolLoad(c)

(***************************************************************************)
(* BaseActor (base.go): the mailbox channel, the processMessages goroutine *)
(* started by Init, and the handler goroutines of batchHandle.  Messages   *)
(* are numbered in the order they are sent; each has a registered handler. *)
(* The senders and the owner of the parent context are outside base.go.    *)
(***************************************************************************)
Msgs == 1..MaxMsgs

\* make(chan interface{}, 1024)
MailboxCap == 1024

\* NewBaseActor: an empty mailbox; no context and no goroutine before Init.
\* pc is the position of processMessages, msgs its local batch, after what
\* follows the batchHandle call it is in.
NewBaseActor ==
    [mailbox |-> <<>>, ctxDone |-> FALSE, pc |-> "none", msgs |-> <<>>,
     after |-> "none"]

\* A faulty batchHandle that returns without waiting for its handlers.
WaitGroup_Done_NoWait(h, batch) == TRUE

\* wg.Wait() of batchHandle returns once every handler of the batch has
\* called wg.Done().
WaitGroup_Done(h, batch) == \A m \in Range(batch) : h[m].st # "running"

\* A faulty test of the batch that never finds it full.
BatchFull_Never(msgs) == FALSE

\* if len(msgs) >= batchSize
BatchFull(msgs) == Len(msgs) >= batchSize

\* Some handler goroutine is running.
HandlerRunning == \E m \in Msgs : hnd[m].st = "running"

ActorInit ==
    /\ act = <<>>
    /\ hnd = [m \in Msgs |-> [st |-> "none", batch |-> 0]]
    /\ alog = [sent |-> 0, atCancel |-> 0, batches |-> <<>>, flush |-> 0,
               busyRecv |-> FALSE, busySpawn |-> FALSE]

CallNewBaseActor ==
    /\ act = <<>>
    /\ act' = NewBaseActor
    /\ UNCHANGED <<hnd, alog>>
    /\ UNCHANGED <<pobjVars, queueVars, poolVars, mgrVars, balVars, sysVars, groupVars, concVars, freeVars, timerVars>>

\* Init: a.ctx derives from the parent context; go a.processMessages().
BaseActor_Init ==
    /\ act # <<>>
    /\ act.pc = "none"
    /\ act' = [act EXCEPT !.pc = "select"]
    /\ UNCHANGED <<hnd, alog>>
    /\ UNCHANGED <<pobjVars, queueVars, poolVars, mgrVars, balVars, sysVars, groupVars, concVars, freeVars, timerVars>>

\* A sender puts the next message into the mailbox channel (a.mailbox <- msg).
MailboxSend ==
    /\ act # <<>>
    /\ alog.sent < MaxMsgs
    /\ Len(act.mailbox) < MailboxCap
    /\ act' = [act EXCEPT !.mailbox = Append(@, alog.sent + 1)]
    /\ alog' = [alog EXCEPT !.sent = @ + 1]
    /\ UNCHANGED hnd
    /\ UNCHANGED <<pobjVars, queueVars, poolVars, mgrVars, balVars, sysVars, groupVars, concVars, freeVars, timerVars>>

\* The parent context, or the actor's own, is cancelled.
CancelCtx ==
    /\ act # <<>>
    /\ ~act.ctxDone
    /\ act' = [act EXCEPT !.ctxDone = TRUE]
    /\ alog' = [alog EXCEPT !.atCancel = alog.sent]
    /\ UNCHANGED hnd
    /\ UNCHANGED <<pobjVars, queueVars, poolVars, mgrVars, balVars, sysVars, groupVars, concVars, freeVars, timerVars>>

\* select, case msg := <-a.mailbox: append; a full batch goes to batchHandle.
\* The case can be chosen whenever the mailbox holds a message, also when
\* ctx.Done() is ready as well.
LoopRecv ==
    /\ act # <<>>
    /\ act.pc = "select"
    /\ act.mailbox # <<>>
    /\ LET msgs == Append(act.msgs, Head(act.mailbox))
       IN act' = [act EXCEPT !.mailbox = Tail(@), !.msgs = msgs,
                             !.pc = IF BatchFull(msgs) THEN "batchHandle"
                                    ELSE "select",
                             !.after = IF BatchFull(msgs) THEN "select"
                                       ELSE "none"]
    /\ alog' = [alog EXCEPT !.busyRecv = @ \/ HandlerRunning]
    /\ UNCHANGED hnd
    /\ UNCHANGED <<pobjVars, queueVars, poolVars, mgrVars, balVars, sysVars, groupVars, concVars, freeVars, timerVars>>

\* select, case <-a.ctx.Done(): a.batchHandle(msgs); return.
LoopCtxDone ==
    /\ act # <<>>
    /\ act.pc = "select"
    /\ act.ctxDone
    /\ act' = [act EXCEPT !.pc = "batchHandle", !.after = "return"]
    /\ UNCHANGED <<hnd, alog>>
    /\ UNCHANGED <<pobjVars, queueVars, poolVars, mgrVars, balVars, sysVars, groupVars, concVars, freeVars, timerVars>>

\* select, default (no other case ready): a partial batch goes to
\* batchHandle; with an empty batch the iteration only yields.
LoopDefault ==
    /\ act # <<>>
    /\ act.pc = "select"
    /\ act.mailbox = <<>>
    /\ ~act.ctxDone
    /\ Len(act.msgs) > 0
    /\ act' = [act EXCEPT !.pc = "batchHandle", !.after = "select"]
    /\ UNCHANGED <<hnd, alog>>
    /\ UNCHANGED <<pobjVars, queueVars, poolVars, mgrVars, balVars, sysVars, groupVars, concVars, freeVars, timerVars>>

\* batchHandle: one goroutine per message of the batch, then wg.Wait().
BatchHandleSpawn ==
    /\ act # <<>>
    /\ act.pc = "batchHandle"
    /\ hnd' = [m \in Msgs |-> IF m \in Range(act.msgs)
                              THEN [st |-> "running",
                                    batch |-> Len(alog.batches) + 1]
                              ELSE hnd[m]]
    /\ alog' = [alog EXCEPT !.batches = Append(@, act.msgs),
                            !.flush = IF act.after = "return"
                                      THEN Len(alog.batches) + 1 ELSE @,
                            !.busySpawn = @ \/ HandlerRunning]
    /\ act' = [act EXCEPT !.pc = "wait"]
    /\ UNCHANGED <<pobjVars, queueVars, poolVars, mgrVars, balVars, sysVars, groupVars, concVars, freeVars, timerVars>>

\* The handler of message m returns; the deferred wg.Done() runs.
HandlerReturn(m) ==
    /\ hnd[m].st = "running"
    /\ hnd' = [hnd EXCEPT ![m].st = "returned"]
    /\ UNCHANGED <<act, alog>>
    /\ UNCHANGED <<pobjVars, queueVars, poolVars, mgrVars, balVars, sysVars, groupVars, concVars, freeVars, timerVars>>

\* The handler of message m panics.  The goroutine of batchHandle defers
\* wg.Done() only and recovers nothing, so the panic ends the program: the
\* processing loop and every other handler stop where they are.
HandlerPanic(m) ==
    /\ hnd[m].st = "running"
    /\ hnd' = [k \in Msgs |-> IF k = m THEN [hnd[k] EXCEPT !.st = "panicked"]
                              ELSE IF hnd[k].st = "running"
                                   THEN [hnd[k] EXCEPT !.st = "killed"]
                                   ELSE hnd[k]]
    /\ act' = [act EXCEPT !.pc = "crashed"]
    /\ UNCHANGED alog
    /\ UNCHANGED <<pobjVars, queueVars, poolVars, mgrVars, balVars, sysVars, groupVars, concVars, freeVars, timerVars>>

\* wg.Wait() returns; then msgs = msgs[:0] and the next iteration, or the
\* return of processMessages after the ctx.Done() case.
BatchHandleWait ==
    /\ act # <<>>
    /\ act.pc = "wait"
    /\ WaitGroup_Done(hnd, act.msgs)
    /\ act' = IF act.after = "return"
              THEN [act EXCEPT !.pc = "exited", !.after = "none"]
              ELSE [act EXCEPT !.pc = "select", !.msgs = <<>>, !.after = "none"]
    /\ UNCHANGED <<hnd, alog>>
    /\ UNCHANGED <<pobjVars, queueVars, poolVars, mgrVars, balVars, sysVars, groupVars, concVars, freeVars, timerVars>>

ActorNext ==
    \/ CallNewBaseActor
    \/ BaseActor_Init
    \/ MailboxSend
    \/ CancelCtx
    \/ LoopRecv
    \/ LoopCtxDone
    \/ LoopDefault
    \/ BatchHandleSpawn
    \/ \E m \in Msgs : HandlerReturn(m)
    \/ \E m \in Msgs : HandlerPanic(m)
    \/ BatchHandleWait

(***************************************************************************)
(* Balancer (balancer.go): a slice of workers, each with a buffered inbox  *)
(* channel and a run loop, and a round-robin counter.  Tasks are numbered  *)
(* in the order they are submitted.  Worker i of the slice (from 0) is     *)
(* element i + 1 of the sequence.                                          *)
(***************************************************************************)

\* &worker{ch: make(chan func(), ...)}; go w.run()
NewWorker == [ch |-> <<>>]

\* NewBalancer on a machine of numCPU processing units, with inboxes of
\* capacity cap.
NewBalancer(numCPU, cap) ==
    [workers |-> [i \in 1..numCPU |-> NewWorker], index |-> 0,
     numCPU |-> numCPU, cap |-> cap]

\* A faulty counter that advances by two.
Submit_AddIndex_ByTwo(b) == [b EXCEPT !.index = @ + 2]

\* atomic.AddUint64(&b.index, 1)
Submit_AddIndex(b) == [b EXCEPT !.index = @ + 1]

\* idx := <the new counter value> % uint64(len(b.workers))
Submit_idx(b) == b.index % Len(b.workers)

\* A faulty expansion that adds as many workers as the computed growth
\* allows, at least two.
expandWorkers_Grow(b) ==
    [b EXCEPT !.workers = @ \o <<NewWorker, NewWorker>>]

\* expandWorkers: newSize is computed and capped at ten workers per
\* processing unit, and then not used; one worker is appended.
expandWorkers(b) ==
    LET grown == Len(b.workers) + (Len(b.workers) \div 10)
        newSize == IF grown > b.numCPU * 10 THEN b.numCPU * 10 ELSE grown
    IN [b EXCEPT !.workers = Append(@, NewWorker)]

SubIdle == [pc |-> "idle", task |-> 0, nw |-> 0]

BalancerInit ==
    /\ bal = <<>>
    /\ sub = SubIdle
    /\ blog = [nilSeen |-> FALSE, targets |-> <<>>, placed |-> <<>>,
               executed |-> {}]

CallNewBalancer(numCPU, cap) ==
    /\ bal = <<>>
    /\ bal' = NewBalancer(numCPU, cap)
    /\ UNCHANGED <<sub, blog>>
    /\ UNCHANGED <<pobjVars, queueVars, poolVars, mgrVars, actorVars, sysVars, groupVars, concVars, freeVars, timerVars>>

\* Submit(nil): if task == nil { return }.  The history keeps that such a
\* call was made.
SubmitNil ==
    /\ bal # <<>>
    /\ sub.pc = "idle"
    /\ ~blog.nilSeen
    /\ blog' = [blog EXCEPT !.nilSeen = TRUE]
    /\ UNCHANGED <<bal, sub>>
    /\ UNCHANGED <<pobjVars, queueVars, poolVars, mgrVars, actorVars, sysVars, groupVars, concVars, freeVars, timerVars>>

\* Submit(task): the counter, the target and the select.  The send case is
\* taken when the target's inbox has room, the default case otherwise.
SubmitCall ==
    /\ bal # <<>>
    /\ sub.pc = "idle"
    /\ Len(blog.targets) < MaxSubmits
    /\ LET b == Submit_AddIndex(bal)
           idx == Submit_idx(b)
           task == Len(blog.targets) + 1
           full == Len(b.workers[idx + 1].ch) >= b.cap
       IN /\ bal' = IF full THEN b
                    ELSE [b EXCEPT !.workers[idx + 1].ch = Append(@, task)]
          /\ sub' = IF full THEN [pc |-> "expand", task |-> task, nw |-> 0]
                    ELSE SubIdle
          /\ blog' = [blog EXCEPT
                        !.targets = Append(@, [idx |-> idx,
                                               len |-> Len(b.workers),
                                               full |-> full]),
                        !.placed = IF full THEN @ ELSE Append(@, idx + 1)]
    /\ UNCHANGED <<pobjVars, queueVars, poolVars, mgrVars, actorVars, sysVars, groupVars, concVars, freeVars, timerVars>>

\* default: newworker := b.expandWorkers()
SubmitExpand ==
    /\ sub.pc = "expand"
    /\ bal' = expandWorkers(bal)
    /\ sub' = [sub EXCEPT !.pc = "retry", !.nw = Len(bal.workers) + 1]
    /\ UNCHANGED blog
    /\ UNCHANGED <<pobjVars, queueVars, poolVars, mgrVars, actorVars, sysVars, groupVars, concVars, freeVars, timerVars>>

\* newworker.ch <- task: a send that waits while the inbox is full.
SubmitRetry ==
    /\ sub.pc = "retry"
    /\ Len(bal.workers[sub.nw].ch) < bal.cap
    /\ bal' = [bal EXCEPT !.workers[sub.nw].ch = Append(@, sub.task)]
    /\ blog' = [blog EXCEPT !.placed = Append(@, sub.nw)]
    /\ sub' = SubIdle
    /\ UNCHANGED <<pobjVars, queueVars, poolVars, mgrVars, actorVars, sysVars, groupVars, concVars, freeVars, timerVars>>

\* worker.run, case task := <-w.ch: task().
WorkerRun(w) ==
    /\ bal # <<>>
    /\ w \in 1..Len(bal.workers)
    /\ bal.workers[w].ch # <<>>
    /\ Cardinality(blog.executed) < MaxRuns
    /\ bal' = [bal EXCEPT !.workers[w].ch = Tail(@)]
    /\ blog' = [blog EXCEPT !.executed = @ \cup {Head(bal.workers[w].ch)}]
    /\ UNCHANGED sub
    /\ UNCHANGED <<pobjVars, queueVars, poolVars, mgrVars, actorVars, sysVars, groupVars, concVars, freeVars, timerVars>>

BalancerNext ==
    \/ \E numCPU \in 1..MaxCPU, cap \in 1..MaxInbox : CallNewBalancer(numCPU, cap)
    \/ SubmitNil
    \/ SubmitCall
    \/ SubmitExpand
    \/ SubmitRetry
    \/ \E w \in 1..(MaxCPU + MaxSubmits) : WorkerRun(w)

(***************************************************************************)
(* System (system.go) and Group (group.go): AddGroupActors and the         *)
(* getOrCreateGroup it calls.  AddGroupActors holds FuncgroupLock for      *)
(* writing from its first statement to its return; getOrCreateGroup takes  *)
(* the same lock before it creates a group.  A sync.RWMutex is not         *)
(* reentrant: Lock waits for the holder, whoever it is.                    *)
(***************************************************************************)
GroupIds == {"g1", "g2"}

\* NewSystem: no group, the lock free, the shared context live.
NewSystem == [mu |-> [w |-> <<>>, r |-> {}], groups |-> << >>, ctxDone |-> FALSE]

\* NewGroup(id, 33ms): no actors; no is the ordinal of the creation.
NewGroup(id, no) == [id |-> id, no |-> no, actors |-> <<>>]

\* g, ok := s.groups[id]
GroupExists(s, id) == id \in DOMAIN s.groups

\* s.groups[id] = g
GroupStore(s, id, g) ==
    [s EXCEPT !.groups = [n \in (DOMAIN s.groups) \cup {id} |->
                             IF n = id THEN g ELSE s.groups[n]]]

\* actor := create(); actor.Init(s.ctx); g.AddActor(actor)
AddActor(s, id, c, k) ==
    [s EXCEPT !.groups[id].actors = Append(@, [by |-> c, k |-> k, ctx |-> "s.ctx"])]

SysIdle == [pc |-> "idle", gid |-> "none", n |-> 0, i |-> 0, g |-> 0]

SystemInit ==
    /\ sys = <<>>
    /\ scall = [c \in Callers |-> SysIdle]
    /\ slog = [groups |-> [id \in GroupIds |-> 0],
               loops |-> [id \in GroupIds |-> 0],
               returned |-> <<>>]
    /\ sstop = [pc |-> "idle", stopped |-> {}]

CallNewSystem ==
    /\ sys = <<>>
    /\ sys' = NewSystem
    /\ UNCHANGED <<scall, slog, sstop>>
    /\ UNCHANGED <<pobjVars, queueVars, poolVars, mgrVars, actorVars, balVars, groupVars, concVars, freeVars, timerVars>>

\* Caller c calls AddGroupActors(gid, creators) with n creators.
AddGroupActorsCall(c, gid, n) ==
    /\ sys # <<>>
    /\ scall[c].pc = "idle"
    /\ scall' = [scall EXCEPT ![c] = [SysIdle EXCEPT !.pc = "Lock", !.gid = gid,
                                                     !.n = n]]
    /\ UNCHANGED <<sys, slog, sstop>>
    /\ UNCHANGED <<pobjVars, queueVars, poolVars, mgrVars, actorVars, balVars, groupVars, concVars, freeVars, timerVars>>

\* The next statement of caller c's AddGroupActors:
\*   Lock         s.FuncgroupLock.Lock()                       (system.go:29)
\*   check        getOrCreateGroup: the map read without lock  (42-44)
\*   create.Lock  getOrCreateGroup: s.FuncgroupLock.Lock()     (46)
\*   create       re-check, NewGroup, map write, go StartUpdate,
\*                deferred Unlock                              (47-56)
\*   range        one creator: create, Init, AddActor; after the last one
\*                the deferred Unlock and the return           (30, 33-38)
\* Unlock of a lock that is not held is a fatal error of the Go runtime.
AddGroupActorsStep(c) ==
    LET me == scall[c]
    IN /\ sys # <<>>
       /\ me.pc \in {"Lock", "check", "create.Lock", "create", "range"}
       /\ me.pc \in {"Lock", "create.Lock"} => RWMutex_CanLock(sys.mu)
       /\ CASE me.pc \in {"Lock", "create.Lock"} ->
                 /\ sys' = [sys EXCEPT !.mu.w = <<c>>]
                 /\ scall' = [scall EXCEPT ![c].pc = IF me.pc = "Lock" THEN "check"
                                                     ELSE "create"]
                 /\ UNCHANGED slog
            [] me.pc = "check" ->
                 /\ scall' = IF GroupExists(sys, me.gid)
                             THEN [scall EXCEPT ![c].pc = "range",
                                                ![c].g = sys.groups[me.gid].no]
                             ELSE [scall EXCEPT ![c].pc = "create.Lock"]
                 /\ UNCHANGED <<sys, slog>>
            [] me.pc = "create" ->
                 IF GroupExists(sys, me.gid)
                 THEN /\ sys' = [sys EXCEPT !.mu.w = <<>>]
                      /\ scall' = [scall EXCEPT ![c].pc = "range",
                                                ![c].g = sys.groups[me.gid].no]
                      /\ UNCHANGED slog
                 ELSE LET no == slog.groups[me.gid] + 1
                      IN /\ sys' = [GroupStore(sys, me.gid, NewGroup(me.gid, no))
                                       EXCEPT !.mu.w = <<>>]
                         /\ slog' = [slog EXCEPT !.groups[me.gid] = no,
                                                 !.loops[me.gid] = @ + 1]
                         /\ scall' = [scall EXCEPT ![c].pc = "range", ![c].g = no]
            [] me.pc = "range" ->
                 IF me.i < me.n
                 THEN /\ sys' = AddActor(sys, me.gid, c, me.i + 1)
                      /\ scall' = [scall EXCEPT ![c].i = @ + 1]
                      /\ UNCHANGED slog
                 ELSE IF sys.mu.w = <<c>>
                      THEN /\ sys' = [sys EXCEPT !.mu.w = <<>>]
                           /\ slog' = [slog EXCEPT !.returned =
                                         Append(@, [c |-> c, gid |-> me.gid,
                                                    n |-> me.n, g |-> me.g])]
                           /\ scall' = [scall EXCEPT ![c] = SysIdle]
                      ELSE /\ scall' = [scall EXCEPT ![c].pc = "fatal"]
                           /\ UNCHANGED <<sys, slog>>
    /\ UNCHANGED sstop
    /\ UNCHANGED <<pobjVars, queueVars, poolVars, mgrVars, actorVars, balVars, groupVars, concVars, freeVars, timerVars>>

\* Every actor of every group, as <<group id, position in the group>>.
AllGroupActors(s) ==
    UNION {{<<id, j>> : j \in 1..Len(s.groups[id].actors)} : id \in DOMAIN s.groups}

\* System.Stop is called, once: s.cancel().
StopCall ==
    /\ sys # <<>>
    /\ sstop.pc = "idle"
    /\ sys' = [sys EXCEPT !.ctxDone = TRUE]
    /\ sstop' = [sstop EXCEPT !.pc = "Lock"]
    /\ UNCHANGED <<scall, slog>>
    /\ UNCHANGED <<pobjVars, queueVars, poolVars, mgrVars, actorVars, balVars, groupVars, concVars, freeVars, timerVars>>

\* The next statement of System.Stop:
\*   Lock    s.FuncgroupLock.Lock()                                (system.go:62)
\*   range   for each group: g.mu.Lock(), a.Stop() for each actor,
\*           g.mu.Unlock(); then the deferred Unlock and the return (63-71)
StopStep ==
    /\ sys # <<>>
    /\ sstop.pc \in {"Lock", "range"}
    /\ sstop.pc = "Lock" => RWMutex_CanLock(sys.mu)
    /\ IF sstop.pc = "Lock"
       THEN /\ sys' = [sys EXCEPT !.mu.w = <<"stop">>]
            /\ sstop' = [sstop EXCEPT !.pc = "range"]
       ELSE /\ sys' = [sys EXCEPT !.mu.w = <<>>]
            /\ sstop' = [pc |-> "returned", stopped |-> AllGroupActors(sys)]
    /\ UNCHANGED <<scall, slog>>
    /\ UNCHANGED <<pobjVars, queueVars, poolVars, mgrVars, actorVars, balVars, groupVars, concVars, freeVars, timerVars>>

SystemNext ==
    \/ CallNewSystem
    \/ \E c \in Callers, gid \in GroupIds, n \in 0..MaxCreators :
          AddGroupActorsCall(c, gid, n)
    \/ \E c \in Callers : AddGroupActorsStep(c)
    \/ StopCall
    \/ StopStep

(***************************************************************************)
(* Group (group.go): the actors of a group and the StartUpdate goroutine   *)
(* that getOrCreateGroup starts for it.  AddActor and each tick hold g.mu  *)
(* for writing.  Actors are numbered in the order AddActor is called.      *)
(* StartUpdate takes no context; the cancellation of the System's context  *)
(* is kept in the history only.                                            *)
(***************************************************************************)
Actors == 1..MaxActors

GroupNoTick == [pc |-> "none", i |-> 0, members |-> <<>>]

GroupCallIdle == [pc |-> "idle", actor |-> 0]

\* A faulty loop that leaves out the last actor of the slice.
Tick_range_ButLast(g) == SubSeq(g.actors, 1, Len(g.actors) - 1)

\* for _, actor := range g.actors: the slice is evaluated once, at the
\* start of the loop.
Tick_range(g) == g.actors

GroupInit ==
    /\ grp = <<>>
    /\ tick = GroupNoTick
    /\ gcall = [c \in Callers |-> GroupCallIdle]
    /\ upd = [a \in Actors |-> 0]
    /\ glog = [added |-> 0, ticks |-> <<>>, cancelled |-> FALSE,
               addWaited |-> FALSE]

\* g := NewGroup(id, 33ms); go g.StartUpdate() - as getOrCreateGroup does.
\* time.NewTicker and the deferred ticker.Stop() change nothing here.
CallNewGroup ==
    /\ grp = <<>>
    /\ grp' = [mu |-> [w |-> <<>>, r |-> {}], actors |-> <<>>]
    /\ tick' = [GroupNoTick EXCEPT !.pc = "ticker.C"]
    /\ UNCHANGED <<gcall, upd, glog>>
    /\ UNCHANGED <<pobjVars, queueVars, poolVars, mgrVars, actorVars, balVars, sysVars, concVars, freeVars, timerVars>>

\* Caller c calls g.AddActor(actor) with a new actor.
AddActorCall(c) ==
    /\ grp # <<>>
    /\ gcall[c].pc = "idle"
    /\ glog.added < MaxActors
    /\ gcall' = [gcall EXCEPT ![c] = [pc |-> "Lock", actor |-> glog.added + 1]]
    /\ glog' = [glog EXCEPT !.added = @ + 1,
                            !.addWaited = @ \/ grp.mu.w = <<"tick">>]
    /\ UNCHANGED <<grp, tick, upd>>
    /\ UNCHANGED <<pobjVars, queueVars, poolVars, mgrVars, actorVars, balVars, sysVars, concVars, freeVars, timerVars>>

\* AddActor: g.mu.Lock()
AddActorLock(c) ==
    /\ gcall[c].pc = "Lock"
    /\ RWMutex_CanLock(grp.mu)
    /\ grp' = [grp EXCEPT !.mu.w = <<c>>]
    /\ gcall' = [gcall EXCEPT ![c].pc = "append"]
    /\ UNCHANGED <<tick, upd, glog>>
    /\ UNCHANGED <<pobjVars, queueVars, poolVars, mgrVars, actorVars, balVars, sysVars, concVars, freeVars, timerVars>>

\* AddActor: g.actors = append(g.actors, actor); the deferred Unlock.
AddActorAppend(c) ==
    /\ gcall[c].pc = "append"
    /\ grp' = [grp EXCEPT !.actors = Append(@, gcall[c].actor), !.mu.w = <<>>]
    /\ gcall' = [gcall EXCEPT ![c] = GroupCallIdle]
    /\ UNCHANGED <<tick, upd, glog>>
    /\ UNCHANGED <<pobjVars, queueVars, poolVars, mgrVars, actorVars, balVars, sysVars, concVars, freeVars, timerVars>>

\* The ticker fires and the loop body starts: g.mu.Lock(), then the range
\* statement takes the slice.  The history keeps the actors of the group at
\* that moment, whether Updates of an earlier tick are still running, and
\* whether the System's context was cancelled before.
TickLock ==
    /\ tick.pc = "ticker.C"
    /\ Len(glog.ticks) < MaxTicks
    /\ RWMutex_CanLock(grp.mu)
    /\ grp' = [grp EXCEPT !.mu.w = <<"tick">>]
    /\ tick' = [pc |-> "range", i |-> 0, members |-> Tick_range(grp)]
    /\ glog' = [glog EXCEPT !.ticks = Append(@,
                   [actors |-> grp.actors, sent |-> <<>>,
                    overlap |-> \E a \in Actors : upd[a] > 0,
                    late |-> glog.cancelled])]
    /\ UNCHANGED <<gcall, upd>>
    /\ UNCHANGED <<pobjVars, queueVars, poolVars, mgrVars, actorVars, balVars, sysVars, concVars, freeVars, timerVars>>

\* One iteration of the range: go actor.Update(g.deltaTime); after the last
\* one g.mu.Unlock() and back to the ticker.
TickDispatch ==
    /\ tick.pc = "range"
    /\ IF tick.i < Len(tick.members)
       THEN LET a == tick.members[tick.i + 1]
            IN /\ upd' = [upd EXCEPT ![a] = @ + 1]
               /\ glog' = [glog EXCEPT !.ticks[Len(glog.ticks)].sent = Append(@, a)]
               /\ tick' = [tick EXCEPT !.i = @ + 1]
               /\ UNCHANGED grp
       ELSE /\ grp' = [grp EXCEPT !.mu.w = <<>>]
            /\ tick' = [GroupNoTick EXCEPT !.pc = "ticker.C"]
            /\ UNCHANGED <<upd, glog>>
    /\ UNCHANGED gcall
    /\ UNCHANGED <<pobjVars, queueVars, poolVars, mgrVars, actorVars, balVars, sysVars, concVars, freeVars, timerVars>>

\* An Update goroutine of actor a returns.
UpdateReturn(a) ==
    /\ upd[a] > 0
    /\ upd' = [upd EXCEPT ![a] = @ - 1]
    /\ UNCHANGED <<grp, tick, gcall, glog>>
    /\ UNCHANGED <<pobjVars, queueVars, poolVars, mgrVars, actorVars, balVars, sysVars, concVars, freeVars, timerVars>>

\* System.Stop cancels the System's context (s.cancel()).
GroupSystemCancel ==
    /\ grp # <<>>
    /\ ~glog.cancelled
    /\ glog' = [glog EXCEPT !.cancelled = TRUE]
    /\ UNCHANGED <<grp, tick, gcall, upd>>
    /\ UNCHANGED <<pobjVars, queueVars, poolVars, mgrVars, actorVars, balVars, sysVars, concVars, freeVars, timerVars>>

GroupNext ==
    \/ CallNewGroup
    \/ \E c \in Callers : AddActorCall(c)
    \/ \E c \in Callers : AddActorLock(c)
    \/ \E c \in Callers : AddActorAppend(c)
    \/ TickLock
    \/ TickDispatch
    \/ \E a \in Actors : UpdateReturn(a)
    \/ GroupSystemCancel

(***************************************************************************)
(* Balancer (balancer.go) under several submitting goroutines, statement   *)
(* by statement, with the cancellation of the context and the exit of the  *)
(* run loops.  Workers are numbered in the order they are created;         *)
(* b.workers is a sequence of these numbers.  Nothing guards b.workers:    *)
(* Submit reads it twice and expandWorkers reads it and writes it back,    *)
(* so a write can fall between two reads of another goroutine.             *)
(***************************************************************************)
WorkerIds == 1..(MaxConcCPU + MaxConcSubmits)

\* The inboxes hold one task here, so that a second Submit to a worker that
\* made no progress expands (make(chan func(), 1024) in the source).
ConcInboxCap == 1

NoWorker == [ch |-> <<>>, st |-> "none"]

\* &worker{ch: make(chan func(), ...)}; w.ctx derives from the balancer's
\* context; go w.run()
StartedWorker == [ch |-> <<>>, st |-> "run"]

ConcSubIdle == [pc |-> "idle", task |-> 0, idx |-> 0, nw |-> 0, snap |-> <<>>]

\* A faulty run loop that has no case for ctx.Done().
WorkerSeesDone_Never(b, w) == FALSE

\* <-w.ctx.Done() is ready: w.ctx is cancelled with the context given to
\* NewBalancer, for the workers of NewBalancer (balancer.go:35) and for
\* those of expandWorkers (69) alike.
WorkerSeesDone(b, w) == b.ctxDone

ConcInit ==
    /\ cbal = <<>>
    /\ cwk = [w \in WorkerIds |-> NoWorker]
    /\ csub = [c \in Callers |-> ConcSubIdle]
    /\ clog = [submitted |-> 0, created |-> 0, appended |-> {},
               placed |-> <<>>, sent |-> <<>>, executed |-> <<>>]

\* The workers whose inbox holds task t, and the workers that ran it.
ConcInboxesOf(t) == {w \in WorkerIds : t \in Range(cwk[w].ch)}

ConcCallNewBalancer(numCPU, cap) ==
    /\ cbal = <<>>
    /\ cbal' = [workers |-> [i \in 1..numCPU |-> i], index |-> 0,
                numCPU |-> numCPU, cap |-> cap, ctxDone |-> FALSE]
    /\ cwk' = [w \in WorkerIds |-> IF w <= numCPU THEN StartedWorker ELSE NoWorker]
    /\ clog' = [clog EXCEPT !.created = numCPU]
    /\ UNCHANGED csub
    /\ UNCHANGED <<pobjVars, queueVars, poolVars, mgrVars, actorVars, balVars, sysVars, groupVars, freeVars, timerVars>>

\* Submit, line 49: the counter is advanced atomically; len(b.workers) is
\* read.
ConcSubmitCall(c) ==
    /\ cbal # <<>>
    /\ csub[c].pc = "idle"
    /\ clog.submitted < MaxConcSubmits
    /\ cbal' = [cbal EXCEPT !.index = @ + 1]
    /\ csub' = [csub EXCEPT ![c] =
                  [ConcSubIdle EXCEPT !.pc = "select", !.task = clog.submitted + 1,
                                      !.idx = (cbal.index + 1) % Len(cbal.workers)]]
    /\ clog' = [clog EXCEPT !.submitted = @ + 1, !.placed = Append(@, 0)]
    /\ UNCHANGED cwk
    /\ UNCHANGED <<pobjVars, queueVars, poolVars, mgrVars, actorVars, balVars, sysVars, groupVars, freeVars, timerVars>>

\* Submit, lines 50-52: b.workers[idx] is read; the send case is taken when
\* that worker's inbox has room, the default case otherwise.
ConcSubmitSelect(c) ==
    /\ csub[c].pc = "select"
    /\ LET w == cbal.workers[csub[c].idx + 1]
       IN IF Len(cwk[w].ch) < cbal.cap
          THEN /\ cwk' = [cwk EXCEPT ![w].ch = Append(@, csub[c].task)]
               /\ clog' = [clog EXCEPT !.placed[csub[c].task] = w,
                                       !.sent = Append(@, [w |-> w, task |-> csub[c].task])]
               /\ csub' = [csub EXCEPT ![c] = ConcSubIdle]
          ELSE /\ csub' = [csub EXCEPT ![c].pc = "expand"]
               /\ UNCHANGED <<cwk, clog>>
    /\ UNCHANGED cbal
    /\ UNCHANGED <<pobjVars, queueVars, poolVars, mgrVars, actorVars, balVars, sysVars, groupVars, freeVars, timerVars>>

\* expandWorkers, lines 61-70 and the operand of append on line 72: a new
\* worker is made and started, and b.workers is read.
ConcExpandCreate(c) ==
    /\ csub[c].pc = "expand"
    /\ LET w == clog.created + 1
       IN /\ cwk' = [cwk EXCEPT ![w] = StartedWorker]
          /\ clog' = [clog EXCEPT !.created = w]
          /\ csub' = [csub EXCEPT ![c].pc = "append", ![c].nw = w,
                                  ![c].snap = cbal.workers]
    /\ UNCHANGED cbal
    /\ UNCHANGED <<pobjVars, queueVars, poolVars, mgrVars, actorVars, balVars, sysVars, groupVars, freeVars, timerVars>>

\* expandWorkers, line 72: b.workers is written with the slice read before
\* plus the new worker.
ConcExpandAppend(c) ==
    /\ csub[c].pc = "append"
    /\ cbal' = [cbal EXCEPT !.workers = Append(csub[c].snap, csub[c].nw)]
    /\ clog' = [clog EXCEPT !.appended = @ \cup {csub[c].nw}]
    /\ csub' = [csub EXCEPT ![c].pc = "retry", ![c].snap = <<>>]
    /\ UNCHANGED cwk
    /\ UNCHANGED <<pobjVars, queueVars, poolVars, mgrVars, actorVars, balVars, sysVars, groupVars, freeVars, timerVars>>

\* Submit, line 55: newworker.ch <- task, a send that waits while the inbox
\* is full.
ConcSubmitRetry(c) ==
    /\ csub[c].pc = "retry"
    /\ Len(cwk[csub[c].nw].ch) < cbal.cap
    /\ cwk' = [cwk EXCEPT ![csub[c].nw].ch = Append(@, csub[c].task)]
    /\ clog' = [clog EXCEPT !.placed[csub[c].task] = csub[c].nw,
                            !.sent = Append(@, [w |-> csub[c].nw, task |-> csub[c].task])]
    /\ csub' = [csub EXCEPT ![c] = ConcSubIdle]
    /\ UNCHANGED cbal
    /\ UNCHANGED <<pobjVars, queueVars, poolVars, mgrVars, actorVars, balVars, sysVars, groupVars, freeVars, timerVars>>

\* worker.run, case task := <-w.ch: task().
ConcWorkerRun(w) ==
    /\ cwk[w].st = "run"
    /\ cwk[w].ch # <<>>
    /\ Len(clog.executed) < MaxRuns
    /\ cwk' = [cwk EXCEPT ![w].ch = Tail(@)]
    /\ clog' = [clog EXCEPT !.executed = Append(@, [w |-> w, task |-> Head(cwk[w].ch)])]
    /\ UNCHANGED <<cbal, csub>>
    /\ UNCHANGED <<pobjVars, queueVars, poolVars, mgrVars, actorVars, balVars, sysVars, groupVars, freeVars, timerVars>>

\* worker.run, case <-w.ctx.Done(): return; the deferred w.cancel().
ConcWorkerExit(w) ==
    /\ cbal # <<>>
    /\ cwk[w].st = "run"
    /\ WorkerSeesDone(cbal, w)
    /\ cwk' = [cwk EXCEPT ![w].st = "exited"]
    /\ UNCHANGED <<cbal, csub, clog>>
    /\ UNCHANGED <<pobjVars, queueVars, poolVars, mgrVars, actorVars, balVars, sysVars, groupVars, freeVars, timerVars>>

\* The context given to NewBalancer is cancelled.
ConcCancel ==
    /\ cbal # <<>>
    /\ ~cbal.ctxDone
    /\ cbal' = [cbal EXCEPT !.ctxDone = TRUE]
    /\ UNCHANGED <<cwk, csub, clog>>
    /\ UNCHANGED <<pobjVars, queueVars, poolVars, mgrVars, actorVars, balVars, sysVars, groupVars, freeVars, timerVars>>

ConcNext ==
    \/ \E numCPU \in 1..MaxConcCPU : ConcCallNewBalancer(numCPU, ConcInboxCap)
    \/ \E c \in Callers : ConcSubmitCall(c)
    \/ \E c \in Callers : ConcSubmitSelect(c)
    \/ \E c \in Callers : ConcExpandCreate(c)
    \/ \E c \in Callers : ConcExpandAppend(c)
    \/ \E c \in Callers : ConcSubmitRetry(c)
    \/ \E w \in WorkerIds : ConcWorkerRun(w)
    \/ \E w \in WorkerIds : ConcWorkerExit(w)
    \/ ConcCancel

(***************************************************************************)
(* ObjectPool (pobject.go, object_pool.go): a slice of all wrappers and a  *)
(* free list, a buffered channel in pobject.go and a slice in              *)
(* object_pool.go.  A wrapper is named by its place in the slice pool.     *)
(* The copy in pobject.go uses the PObject of its file; the copy in        *)
(* object_pool.go is taken with the PObject of object_pool_manager.go.     *)
(* Values made by a caller's factory are numbered by their wrapper; 0 is   *)
(* the zero value of T.                                                    *)
(***************************************************************************)
PoolCopies == {"pobject", "object_pool"}

FlIdle == [pc |-> "idle", op |-> "none", w |-> 0, i |-> 0, obj |-> 0]

\* NewObjectPool(size) of pobject.go: FreeList is a channel of capacity size.
\* NewObjectPool() of object_pool.go: FreeList is a slice (size is unused).
NewObjectPool(copy, size) ==
    [copy |-> copy, size |-> size, pool |-> <<>>, FreeList |-> <<>>, mu |-> <<>>]

\* pobject.go: select { case op.FreeList <- pObj: default: } - the wrapper is
\* dropped from the free list when the channel is full.
\* object_pool.go: op.FreeList = append(op.FreeList, pObj).
FreeList_Put(op, w) ==
    IF op.copy = "pobject" /\ Len(op.FreeList) >= op.size
    THEN op.FreeList
    ELSE Append(op.FreeList, w)

\* The body of AddObj under op.mu: a wrapper of factory()'s value, not in
\* use, is appended to pool and put on the free list.
AddObj(op, date) ==
    LET w == Len(op.pool) + 1
        op1 == [op EXCEPT !.pool = Append(@, NewPObject(date))]
    IN [op1 EXCEPT !.FreeList = FreeList_Put(op1, w)]

\* pObj.GetObj(init, callback) with the PObject of the pool's copy.
Pool_PObject_GetObj(op, w, init, callback) ==
    IF op.copy = "pobject"
    THEN PObject_GetObj_pobject(op.pool[w], init, callback)
    ELSE PObject_GetObj(op.pool[w], init, callback)

\* pObj.ReleaseObj(obj) with the PObject of the pool's copy.
Pool_PObject_ReleaseObj(op, w, obj) ==
    IF op.copy = "pobject"
    THEN PObject_ReleaseObj_pobject(op.pool[w], obj)
    ELSE PObject_ReleaseObj(op.pool[w], obj)

FreeListInit ==
    /\ fl = <<>>
    /\ fcall = [c \in Callers |-> FlIdle]
    /\ fheld = [c \in Callers |-> {}]
    /\ flog = [gets |-> <<>>, ops |-> 0]

\* The wrappers some caller holds the value of.
CheckedOut == UNION {fheld[c] : c \in Callers}

\* GetObj returns to caller c the value of wrapper w (0: the zero value of a
\* failed pObj.GetObj, which is no wrapper's checkout).
FlReturn(c, op, w, path, calls) ==
    /\ flog' = [gets |-> Append(flog.gets,
                   [w |-> w, path |-> path,
                    inUse |-> w # 0 /\ op.pool[w].isUsing,
                    inFree |-> w \in Range(op.FreeList),
                    heldBefore |-> w \in CheckedOut]),
                ops |-> flog.ops + calls]
    /\ fheld' = IF w = 0 THEN fheld ELSE [fheld EXCEPT ![c] = @ \cup {w}]

CallNewObjectPool(copy, size) ==
    /\ fl = <<>>
    /\ fl' = NewObjectPool(copy, size)
    /\ UNCHANGED <<fcall, fheld, flog>>
    /\ UNCHANGED <<pobjVars, queueVars, poolVars, mgrVars, actorVars, balVars, sysVars, groupVars, concVars, timerVars>>

\* AddObj, from op.mu.Lock() to its return: called by the application with
\* its factory, or by GetObj on an empty free list (pc "AddObj") - in
\* pobject.go with a factory of the zero value, and GetObj returns the new
\* wrapper's date; in object_pool.go with the caller's factory, and GetObj
\* goes on to pObj.GetObj.
ObjectPool_AddObj(c) ==
    /\ fl # <<>>
    /\ fcall[c].pc \in {"idle", "AddObj"}
    /\ fl.mu = <<>>
    /\ Len(fl.pool) < MaxWrappers
    /\ LET w == Len(fl.pool) + 1
           nested == fcall[c].pc = "AddObj"
           date == IF nested /\ fl.copy = "pobject" THEN 0 ELSE w
           op1 == AddObj(fl, date)
       IN IF ~nested
          THEN /\ flog.ops < MaxFlOps
               /\ fl' = op1
               /\ flog' = [flog EXCEPT !.ops = @ + 1]
               /\ UNCHANGED <<fcall, fheld>>
          ELSE IF fl.copy = "pobject"
          THEN /\ fl' = op1
               /\ FlReturn(c, op1, w, "new", 0)
               /\ fcall' = [fcall EXCEPT ![c] = FlIdle]
          ELSE LET r == Pool_PObject_GetObj(op1, w, "cbA", "cbB")
                   op2 == [op1 EXCEPT !.pool[w] = r.p, !.mu = <<>>]
               IN /\ fl' = op2
                  /\ FlReturn(c, op2, IF r.ok THEN w ELSE 0, "new", 0)
                  /\ fcall' = [fcall EXCEPT ![c] = FlIdle]
    /\ UNCHANGED <<pobjVars, queueVars, poolVars, mgrVars, actorVars, balVars, sysVars, groupVars, concVars, timerVars>>

\* Caller c calls GetObj.
\* pobject.go: the select on the channel, with no lock held; a received
\* wrapper goes to pObj.GetObj, the default branch to AddObj.
\* object_pool.go: op.mu is taken and held to the return; with a wrapper on
\* the free list the call pops it, calls pObj.GetObj and returns; with none
\* it calls AddObj while holding op.mu.
ObjectPool_GetObj(c) ==
    /\ fl # <<>>
    /\ fcall[c].pc = "idle"
    /\ flog.ops < MaxFlOps
    /\ IF fl.copy = "pobject"
       THEN /\ IF Len(fl.FreeList) > 0
               THEN /\ fl' = [fl EXCEPT !.FreeList = Tail(@)]
                    /\ fcall' = [fcall EXCEPT ![c] =
                                   [FlIdle EXCEPT !.pc = "pObj.GetObj", !.op = "GetObj",
                                                  !.w = Head(fl.FreeList)]]
               ELSE /\ fcall' = [fcall EXCEPT ![c] =
                                   [FlIdle EXCEPT !.pc = "AddObj", !.op = "GetObj"]]
                    /\ UNCHANGED fl
            /\ flog' = [flog EXCEPT !.ops = @ + 1]
            /\ UNCHANGED fheld
       ELSE /\ fl.mu = <<>>
            /\ IF Len(fl.FreeList) > 0
               THEN LET w == Head(fl.FreeList)
                        r == Pool_PObject_GetObj(fl, w, "cbA", "cbB")
                        op1 == [fl EXCEPT !.FreeList = Tail(@), !.pool[w] = r.p]
                    IN /\ fl' = op1
                       /\ FlReturn(c, op1, IF r.ok THEN w ELSE 0, "free", 1)
                       /\ UNCHANGED fcall
               ELSE /\ fl' = [fl EXCEPT !.mu = <<c>>]
                    /\ fcall' = [fcall EXCEPT ![c] =
                                   [FlIdle EXCEPT !.pc = "AddObj", !.op = "GetObj"]]
                    /\ flog' = [flog EXCEPT !.ops = @ + 1]
                    /\ UNCHANGED fheld
    /\ UNCHANGED <<pobjVars, queueVars, poolVars, mgrVars, actorVars, balVars, sysVars, groupVars, concVars, timerVars>>

\* pobject.go, case pObj := <-op.FreeList: obj, _ := pObj.GetObj(init,
\* callback); return obj.  The result ok is dropped: on a wrapper in use the
\* call returns the zero value.
ObjectPool_GetObj_pObj(c) ==
    /\ fl # <<>>
    /\ fcall[c].pc = "pObj.GetObj"
    /\ LET w == fcall[c].w
           r == Pool_PObject_GetObj(fl, w, "cbA", "cbB")
           op1 == [fl EXCEPT !.pool[w] = r.p]
       IN /\ fl' = op1
          /\ FlReturn(c, op1, IF r.ok THEN w ELSE 0, "free", 0)
          /\ fcall' = [fcall EXCEPT ![c] = FlIdle]
    /\ UNCHANGED <<pobjVars, queueVars, poolVars, mgrVars, actorVars, balVars, sysVars, groupVars, concVars, timerVars>>

\* Caller c calls ReleaseObj(obj) with the value of a wrapper w it holds:
\* op.mu.Lock(), then the loop over op.pool.
ObjectPool_ReleaseObj(c, w) ==
    /\ fl # <<>>
    /\ fcall[c].pc = "idle"
    /\ flog.ops < MaxFlOps
    /\ w \in fheld[c]
    /\ fl.mu = <<>>
    /\ fl' = [fl EXCEPT !.mu = <<c>>]
    /\ fcall' = [fcall EXCEPT ![c] =
                   [FlIdle EXCEPT !.pc = "range", !.op = "ReleaseObj", !.w = w,
                                  !.i = 1, !.obj = fl.pool[w].date]]
    /\ fheld' = [fheld EXCEPT ![c] = @ \ {w}]
    /\ flog' = [flog EXCEPT !.ops = @ + 1]
    /\ UNCHANGED <<pobjVars, queueVars, poolVars, mgrVars, actorVars, balVars, sysVars, groupVars, concVars, timerVars>>

\* One iteration of for _, pObj := range op.pool: the first wrapper whose
\* pObj.ReleaseObj(obj) returns true is put on the free list and the call
\* returns nil; after the last wrapper the call returns its error.
ObjectPool_ReleaseObj_range(c) ==
    /\ fl # <<>>
    /\ fcall[c].pc = "range"
    /\ LET i == fcall[c].i
       IN IF i > Len(fl.pool)
          THEN /\ fl' = [fl EXCEPT !.mu = <<>>]
               /\ fcall' = [fcall EXCEPT ![c] = FlIdle]
          ELSE LET r == Pool_PObject_ReleaseObj(fl, i, fcall[c].obj)
                   op1 == [fl EXCEPT !.pool[i] = r.p]
               IN IF r.ok
                  THEN /\ fl' = [op1 EXCEPT !.FreeList = FreeList_Put(op1, i),
                                            !.mu = <<>>]
                       /\ fcall' = [fcall EXCEPT ![c] = FlIdle]
                  ELSE /\ fl' = op1
                       /\ fcall' = [fcall EXCEPT ![c].i = i + 1]
    /\ UNCHANGED <<fheld, flog>>
    /\ UNCHANGED <<pobjVars, queueVars, poolVars, mgrVars, actorVars, balVars, sysVars, groupVars, concVars, timerVars>>

FreeListNext ==
    \/ \E size \in 1..MaxFree : CallNewObjectPool("pobject", size)
    \/ CallNewObjectPool("object_pool", 0)
    \/ \E c \in Callers : ObjectPool_AddObj(c)
    \/ \E c \in Callers : ObjectPool_GetObj(c)
    \/ \E c \in Callers : ObjectPool_GetObj_pObj(c)
    \/ \E c \in Callers, w \in 1..MaxWrappers : ObjectPool_ReleaseObj(c, w)
    \/ \E c \in Callers : ObjectPool_ReleaseObj_range(c)

(***************************************************************************)
(* KeyFrame and the keyframe pool (Timer package): KeyFrame's hooks and    *)
(* methods, InitKeyFramePool, GetKeyFrame and ReleaseKeyFrame over a       *)
(* GenericObjectPool registered as "keyframe_pool".  Keyframes are         *)
(* numbered in the order the factory makes them; times are in units of     *)
(* 0.1 s; an action is "nil" or the name of a func.  Callers are           *)
(* goroutines; a caller passes ReleaseKeyFrame, Set and Trigger a keyframe *)
(* it once got from GetKeyFrame, or nil (0) to ReleaseKeyFrame.            *)
(***************************************************************************)
KfIds == 1..MaxKeyFrames
KfTimes == 0..MaxKfTime
KfActions == {"nil", "fa"}
poolName == "keyframe_pool"

\* A keyframe the factory has not made yet.
NoKeyFrame ==
    [made |-> FALSE, Time |-> 0, Action |-> "nil", IsTrigger |-> FALSE, mu |-> "free"]

\* The factory of InitKeyFramePool: &KeyFrame{Time: 0.1}.
KeyFrameFactory ==
    [made |-> TRUE, Time |-> 1, Action |-> "nil", IsTrigger |-> FALSE, mu |-> "free"]

\* OnGet, under kf.mu.
KeyFrame_OnGet(kf) == [kf EXCEPT !.IsTrigger = FALSE]

\* OnRelease, under kf.mu.
KeyFrame_OnRelease(kf) ==
    [kf EXCEPT !.Time = 0, !.Action = "nil", !.IsTrigger = FALSE]

\* Validate.
KeyFrame_Validate(kf) ==
    IF kf.Time <= 0 THEN "ErrInvalidKeyFrameTime"
    ELSE IF kf.Action = "nil" THEN "ErrNilKeyFrameAction"
    ELSE "nil"

\* Set, under kf.mu, after its checks of time and action.
KeyFrame_Set(kf, time, action) ==
    [kf EXCEPT !.Time = time, !.Action = action, !.IsTrigger = FALSE]

\* Trigger, under kf.mu: the action is started and the keyframe marked, once.
KeyFrame_Trigger(kf) ==
    IF kf.IsTrigger \/ kf.Action = "nil" THEN kf ELSE [kf EXCEPT !.IsTrigger = TRUE]

\* The parameter checks GetKeyFrame makes before it touches the pool.
GetKeyFrame_check(time, action) ==
    IF time <= 0 THEN "ErrInvalidKeyFrameTime"
    ELSE IF action = "nil" THEN "ErrNilKeyFrameAction"
    ELSE "nil"

\* ReleaseKeyFrame, under kf.mu: if kf.Time == 0 the call returns
\* ErrKeyFrameDoubleRelease.
ReleaseKeyFrame_guard(kf) == kf.Time = 0

\* The state InitKeyFramePool leaves: a manager with the pool registered
\* under poolName, and the pool with its warm-up goroutine started.
InitKeyFramePool ==
    [mgr |-> PoolStore(NewManager, poolName, "keyFramePool"),
     gop |-> NewGenericObjectPool(KeyFrameCache),
     warm |-> [pc |-> "run", i |-> 0]]

KfIdle == [pc |-> "idle", op |-> "none", ret |-> "none", k |-> 0, time |-> 0,
           action |-> "nil", i |-> 0, errs |-> 0]

\* No goroutine has panicked: an unrecovered panic ends the program.
NoPanic == \A c \in Callers : kcall[c].pc # "panic"

KeyFrameInit ==
    /\ kfp = <<>>
    /\ kfs = [k \in KfIds |-> NoKeyFrame]
    /\ kcall = [c \in Callers |-> KfIdle]
    /\ krefs = [c \in Callers |-> {}]
    /\ klog = [ops |-> 0, made |-> 0, get |-> <<>>, rel |-> <<>>,
               since |-> [k \in KfIds |-> 0],
               add |-> [n |-> 0, refuse |-> FALSE, err |-> "nil"], stop |-> <<>>,
               fired |-> [k \in KfIds |-> 0], over |-> FALSE, sent |-> <<>>]
    /\ zt = <<>>

\* How often keyframe k is in the pool: in the hot cache and in the sync.Pool.
InPool(k) ==
    IF kfp = <<>> THEN 0
    ELSE Cardinality({i \in 1..Len(kfp.gop.hotCache) : kfp.gop.hotCache[i] = k})
         + Cardinality({i \in 1..Len(kfp.gop.pool) : kfp.gop.pool[i] = k})

\* GetKeyFrame from its first statement to the call of pool.GetObj, for a
\* call whose parameters passed the checks: poolInitOnce.Do builds the pool
\* on the first call.  where is the caller of GetKeyFrame.
GetKeyFrame_Enter(c, time, action, op, where) ==
    /\ kfp' = IF kfp = <<>> THEN InitKeyFramePool ELSE kfp
    /\ kcall' = [kcall EXCEPT ![c] =
                   [@ EXCEPT !.pc = "select", !.op = op, !.ret = where,
                             !.time = time, !.action = action]]

\* ReleaseKeyFrame returns err to where it was called from: the application,
\* or the loop of StopTimer.
ReleaseKeyFrame_Return(c, k, err) ==
    /\ kcall' = [kcall EXCEPT ![c] =
                   IF @.ret = "StopTimer"
                   THEN [@ EXCEPT !.pc = "stop.range", !.i = @ + 1,
                                  !.errs = @ + (IF err = "nil" THEN 0 ELSE 1)]
                   ELSE KfIdle]
    /\ klog' = [klog EXCEPT
                  !.rel = <<[again |-> klog.since[k] > 0, err |-> err]>>,
                  !.since[k] = IF err = "nil" THEN @ + 1 ELSE @]

\* The warm-up goroutine of the keyframe pool.
KeyFrameWarmUp ==
    /\ NoPanic
    /\ kfp # <<>>
    /\ kfp.warm.pc = "run"
    /\ IF kfp.warm.i < kfp.gop.cacheSize
       THEN /\ klog.made < MaxKeyFrames
            /\ LET v == klog.made + 1
               IN /\ kfp' = [kfp EXCEPT !.gop = WarmUpSend(@, v), !.warm.i = @ + 1]
                  /\ kfs' = [kfs EXCEPT ![v] = KeyFrameFactory]
                  /\ klog' = [klog EXCEPT !.made = v]
       ELSE /\ kfp' = [kfp EXCEPT !.warm.pc = "done"]
            /\ UNCHANGED <<kfs, klog>>
    /\ UNCHANGED <<kcall, krefs, zt>>
    /\ UNCHANGED <<pobjVars, queueVars, poolVars, mgrVars, actorVars, balVars, sysVars, groupVars, concVars, freeVars>>

\* The application calls GetKeyFrame(time, action).
GetKeyFrameCall(c, time, action) ==
    /\ NoPanic
    /\ kcall[c].pc = "idle"
    /\ klog.ops < MaxKfOps
    /\ IF GetKeyFrame_check(time, action) # "nil"
       THEN /\ klog' = [klog EXCEPT !.ops = @ + 1]
            /\ UNCHANGED <<kfp, kcall>>
       ELSE /\ GetKeyFrame_Enter(c, time, action, "GetKeyFrame", "app")
            /\ klog' = [klog EXCEPT !.ops = @ + 1]
    /\ UNCHANGED <<kfs, krefs, zt>>
    /\ UNCHANGED <<pobjVars, queueVars, poolVars, mgrVars, actorVars, balVars, sysVars, groupVars, concVars, freeVars>>

\* GetKeyFrame: GetPool, then pool.GetObj's select.
GetKeyFrameSelect(c) ==
    /\ NoPanic
    /\ kcall[c].pc = "select"
    /\ IF ~PoolExists(kfp.mgr, poolName)
       THEN /\ kcall' = [kcall EXCEPT ![c] = KfIdle]
            /\ UNCHANGED kfp
       ELSE LET r == GetObj_select(kfp.gop)
            IN /\ kfp' = [kfp EXCEPT !.gop = r.g]
               /\ kcall' = [kcall EXCEPT
                              ![c].pc = IF r.hit THEN "onGet" ELSE "poolGet",
                              ![c].k = IF r.hit THEN r.obj[1] ELSE 0]
    /\ UNCHANGED <<kfs, krefs, klog, zt>>
    /\ UNCHANGED <<pobjVars, queueVars, poolVars, mgrVars, actorVars, balVars, sysVars, groupVars, concVars, freeVars>>

\* GetObj's default branch: gop.pool.Get() hands out a keyframe put before
\* or calls the factory.
GetKeyFramePoolGet(c) ==
    /\ NoPanic
    /\ kcall[c].pc = "poolGet"
    /\ \/ \E i \in 1..Len(kfp.gop.pool) :
            /\ kfp' = [kfp EXCEPT !.gop.pool = RemoveAt(@, i)]
            /\ kcall' = [kcall EXCEPT ![c].pc = "onGet", ![c].k = kfp.gop.pool[i]]
            /\ UNCHANGED <<kfs, klog>>
       \/ /\ klog.made < MaxKeyFrames
          /\ LET v == klog.made + 1
             IN /\ kcall' = [kcall EXCEPT ![c].pc = "onGet", ![c].k = v]
                /\ kfs' = [kfs EXCEPT ![v] = KeyFrameFactory]
                /\ klog' = [klog EXCEPT !.made = v]
                /\ UNCHANGED kfp
    /\ UNCHANGED <<krefs, zt>>
    /\ UNCHANGED <<pobjVars, queueVars, poolVars, mgrVars, actorVars, balVars, sysVars, groupVars, concVars, freeVars>>

\* obj.OnGet() of GetObj: waits for kf.mu.
GetKeyFrameOnGet(c) ==
    /\ NoPanic
    /\ kcall[c].pc = "onGet"
    /\ LET k == kcall[c].k
       IN /\ kfs[k].mu = "free"
          /\ kfs' = [kfs EXCEPT ![k] = KeyFrame_OnGet(@)]
          /\ kcall' = [kcall EXCEPT ![c].pc = "config"]
    /\ UNCHANGED <<kfp, krefs, klog, zt>>
    /\ UNCHANGED <<pobjVars, queueVars, poolVars, mgrVars, actorVars, balVars, sysVars, groupVars, concVars, freeVars>>

\* GetKeyFrame after GetObj: kf.mu.Lock(); kf.Time = time; kf.Action =
\* action; Validate; return kf.  A failed Validate would call
\* ReleaseKeyFrame with kf.mu held, which waits for kf.mu for ever.
GetKeyFrameConfig(c) ==
    /\ NoPanic
    /\ kcall[c].pc = "config"
    /\ LET k == kcall[c].k
           kf == [kfs[k] EXCEPT !.Time = kcall[c].time, !.Action = kcall[c].action]
       IN /\ kfs[k].mu = "free"
          /\ IF KeyFrame_Validate(kf) # "nil"
             THEN /\ kfs' = [kfs EXCEPT ![k] = [kf EXCEPT !.mu = c]]
                  /\ kcall' = [kcall EXCEPT ![c].pc = "rel.lock", ![c].ret = "GetKeyFrame"]
                  /\ UNCHANGED <<krefs, klog>>
             ELSE /\ kfs' = [kfs EXCEPT ![k] = kf]
                  /\ klog' = [klog EXCEPT
                                !.get = <<[IsTrigger |-> kf.IsTrigger,
                                           asAsked |-> /\ kf.Time = kcall[c].time
                                                       /\ kf.Action = kcall[c].action]>>,
                                !.since[k] = 0]
                  /\ IF kcall[c].ret = "AddKeyFrame"
                     THEN /\ kcall' = [kcall EXCEPT ![c].pc = "append"]
                          /\ UNCHANGED krefs
                     ELSE /\ kcall' = [kcall EXCEPT ![c] = KfIdle]
                          /\ krefs' = [krefs EXCEPT ![c] = @ \cup {k}]
    /\ UNCHANGED <<kfp, zt>>
    /\ UNCHANGED <<pobjVars, queueVars, poolVars, mgrVars, actorVars, balVars, sysVars, groupVars, concVars, freeVars>>

\* The application calls ReleaseKeyFrame(kf): nil is refused at once.
ReleaseKeyFrameCall(c, k) ==
    /\ NoPanic
    /\ kcall[c].pc = "idle"
    /\ klog.ops < MaxKfOps
    /\ k \in krefs[c] \cup {0}
    /\ kcall' = IF k = 0 THEN kcall
                ELSE [kcall EXCEPT ![c] =
                        [KfIdle EXCEPT !.pc = "rel.lock", !.op = "ReleaseKeyFrame",
                                       !.ret = "app", !.k = k]]
    /\ klog' = [klog EXCEPT !.ops = @ + 1]
    /\ UNCHANGED <<kfp, kfs, krefs, zt>>
    /\ UNCHANGED <<pobjVars, queueVars, poolVars, mgrVars, actorVars, balVars, sysVars, groupVars, concVars, freeVars>>

\* ReleaseKeyFrame: kf.mu.Lock(); the double-release guard; GetPool; the
\* select of pool.ReleaseObj.  kf.mu stays held to the return.
ReleaseKeyFrameLock(c) ==
    /\ NoPanic
    /\ kcall[c].pc = "rel.lock"
    /\ LET k == kcall[c].k
       IN /\ kfs[k].mu = "free"
          /\ IF ReleaseKeyFrame_guard(kfs[k])
             THEN /\ ReleaseKeyFrame_Return(c, k, "ErrKeyFrameDoubleRelease")
                  /\ UNCHANGED <<kfp, kfs>>
             ELSE LET r == ReleaseObj_select(kfp.gop, k)
                  IN /\ kfp' = [kfp EXCEPT !.gop = r.g]
                     /\ kfs' = [kfs EXCEPT ![k].mu = c]
                     /\ kcall' = [kcall EXCEPT
                                    ![c].pc = IF r.sent THEN "rel.clear" ELSE "rel.put"]
                     /\ UNCHANGED klog
    /\ UNCHANGED <<krefs, zt>>
    /\ UNCHANGED <<pobjVars, queueVars, poolVars, mgrVars, actorVars, balVars, sysVars, groupVars, concVars, freeVars>>

\* default branch of pool.ReleaseObj: gop.pool.Put(obj).
ReleaseKeyFramePut(c) ==
    /\ NoPanic
    /\ kcall[c].pc = "rel.put"
    /\ kfp' = [kfp EXCEPT !.gop.pool = Append(@, kcall[c].k)]
    /\ kcall' = [kcall EXCEPT ![c].pc = "rel.clear"]
    /\ UNCHANGED <<kfs, krefs, klog, zt>>
    /\ UNCHANGED <<pobjVars, queueVars, poolVars, mgrVars, actorVars, balVars, sysVars, groupVars, concVars, freeVars>>

\* ReleaseKeyFrame after pool.ReleaseObj: kf.Time = 0; kf.Action = nil;
\* return nil, and the deferred kf.mu.Unlock().
ReleaseKeyFrameClear(c) ==
    /\ NoPanic
    /\ kcall[c].pc = "rel.clear"
    /\ LET k == kcall[c].k
       IN /\ kfs' = [kfs EXCEPT ![k].Time = 0, ![k].Action = "nil", ![k].mu = "free"]
          /\ ReleaseKeyFrame_Return(c, k, "nil")
    /\ UNCHANGED <<kfp, krefs, zt>>
    /\ UNCHANGED <<pobjVars, queueVars, poolVars, mgrVars, actorVars, balVars, sysVars, groupVars, concVars, freeVars>>

\* The application calls kf.Set(time, action) with a positive time and an
\* action.
KeyFrameSet(c, k, time, action) ==
    /\ NoPanic
    /\ kcall[c].pc = "idle"
    /\ klog.ops < MaxKfOps
    /\ k \in krefs[c]
    /\ time > 0
    /\ action # "nil"
    /\ kfs[k].mu = "free"
    /\ kfs' = [kfs EXCEPT ![k] = KeyFrame_Set(@, time, action)]
    /\ klog' = [klog EXCEPT !.ops = @ + 1]
    /\ UNCHANGED <<kfp, kcall, krefs, zt>>
    /\ UNCHANGED <<pobjVars, queueVars, poolVars, mgrVars, actorVars, balVars, sysVars, groupVars, concVars, freeVars>>

\* The application calls kf.Trigger().
KeyFrameTrigger(c, k) ==
    /\ NoPanic
    /\ kcall[c].pc = "idle"
    /\ klog.ops < MaxKfOps
    /\ k \in krefs[c]
    /\ kfs[k].mu = "free"
    /\ kfs' = [kfs EXCEPT ![k] = KeyFrame_Trigger(@)]
    /\ klog' = [klog EXCEPT !.ops = @ + 1]
    /\ UNCHANGED <<kfp, kcall, krefs, zt>>
    /\ UNCHANGED <<pobjVars, queueVars, poolVars, mgrVars, actorVars, balVars, sysVars, groupVars, concVars, freeVars>>

KeyFrameSteps ==
    \/ KeyFrameWarmUp
    \/ \E c \in Callers : GetKeyFrameSelect(c)
    \/ \E c \in Callers : GetKeyFramePoolGet(c)
    \/ \E c \in Callers : GetKeyFrameOnGet(c)
    \/ \E c \in Callers : GetKeyFrameConfig(c)
    \/ \E c \in Callers : ReleaseKeyFrameLock(c)
    \/ \E c \in Callers : ReleaseKeyFramePut(c)
    \/ \E c \in Callers : ReleaseKeyFrameClear(c)

KeyFrameNext ==
    \/ \E c \in Callers, time \in KfTimes, action \in KfActions :
          GetKeyFrameCall(c, time, action)
    \/ \E c \in Callers, k \in 0..MaxKeyFrames : ReleaseKeyFrameCall(c, k)
    \/ \E c \in Callers, k \in KfIds, time \in KfTimes, action \in KfActions :
          KeyFrameSet(c, k, time, action)
    \/ \E c \in Callers, k \in KfIds : KeyFrameTrigger(c, k)
    \/ KeyFrameSteps


(***************************************************************************)
(* ZTimer (ztimer.go): the keyframe list, the running flag, the RWMutex    *)
(* mu, the stop channel, the ticker, the update-loop goroutines Start      *)
(* spawns and the safeStop and asyncResetKeyFrames goroutines Update       *)
(* spawns.  The calls are made by the callers of the keyframe pool;        *)
(* AddKeyFrame and StopTimer go through GetKeyFrame and ReleaseKeyFrame    *)
(* with zt.mu held.  zt.mu is a sync.RWMutex: r counts the read locks      *)
(* held, w is the writer that holds the lock and p the writer that waits   *)
(* in Lock() for the readers to leave; while a writer waits or holds, an   *)
(* RLock() blocks, also the RLock() of a goroutine that holds a read lock  *)
(* already.  AddKeyFrame and Start are called while nobody holds zt.mu.    *)
(***************************************************************************)
ActorRefs == {"nil", "actor"}

\* The goroutines Update starts with go: zt.safeStop and
\* zt.asyncResetKeyFrames.
AsyncFuncs == {"safeStop", "asyncResetKeyFrames"}

\* deltaTime of a tick, in the unit of the keyframe times.
Deltas == 1..MaxDelta

\* sync.RWMutex: no writer holds the lock and none waits for the readers.
RWMutex_NoWriter(mu) == mu.w = <<>> /\ mu.p = <<>>

\* sync.RWMutex: nobody holds the lock and no writer waits.
RWMutex_Unlocked(mu) == RWMutex_NoWriter(mu) /\ mu.r = 0

\* An update loop at its select statement.
LoopAtSelect == [pc |-> "select", trig |-> {}]

\* NewZTimer(offsetTime) for a positive offsetTime.  loops holds the
\* update-loop goroutines that have not returned (asyncWG counts them);
\* async counts the started goroutines of safeStop and of
\* asyncResetKeyFrames that have not taken zt.mu yet.
NewZTimer(offsetTime) ==
    [OffsetTime |-> offsetTime, keyFrames |-> <<>>, isRun |-> FALSE,
     IsLoop |-> FALSE, maxTimer |-> 0, currentTimer |-> 0, MyActorBase |-> "nil",
     mu |-> [w |-> <<>>, r |-> 0, p |-> <<>>], stopChan |-> "open",
     updateTicker |-> "on", loops |-> <<>>,
     async |-> [f \in AsyncFuncs |-> 0]]

\* A faulty AddKeyFrame that does not look at the running flag.
AddKeyFrame_check_IgnoreRun(t, time, action) ==
    IF time <= 0 THEN "ErrInvalidTimerParameters"
    ELSE IF action = "nil" THEN "ErrNilKeyFrameAction"
    ELSE "nil"

\* The checks of AddKeyFrame, in the order of the code: the parameters, then
\* under zt.mu the running flag.
AddKeyFrame_check(t, time, action) ==
    IF time <= 0 THEN "ErrInvalidTimerParameters"
    ELSE IF action = "nil" THEN "ErrNilKeyFrameAction"
    ELSE IF t.isRun THEN "ErrTimerAlreadyRunning"
    ELSE "nil"

\* The largest Time of the timer's keyframes, from 0.
RECURSIVE MaxTime(_, _)
MaxTime(frames, n) ==
    IF n = 0 THEN 0
    ELSE LET m == MaxTime(frames, n - 1)
         IN IF kfs[frames[n]].Time > m THEN kfs[frames[n]].Time ELSE m

\* Update: zt.currentTimer > zt.maxTimer+zt.OffsetTime.
Update_over(t) == t.currentTimer > t.maxTimer + t.OffsetTime

\* Update: the keyframes of the range loop that get a Trigger goroutine.
Update_due(t) ==
    {t.keyFrames[i] : i \in {j \in 1..Len(t.keyFrames) :
        /\ ~kfs[t.keyFrames[j]].IsTrigger
        /\ t.currentTimer >= kfs[t.keyFrames[j]].Time - t.OffsetTime}}

\* updateTicker.Stop(): no tick is sent any more; one sent before may wait
\* in the ticker's channel.
Ticker_Stop(ticker) == IF ticker = "on" THEN {"last", "stopped"} ELSE {ticker}

\* safeStop's select: the send on the unbuffered stopChan happens when an
\* update loop waits in its select, else the default case runs.
safeStop_receivers(t) == {l \in 1..Len(t.loops) : t.loops[l].pc = "select"}

CallNewZTimer(offsetTime) ==
    /\ NoPanic
    /\ zt = <<>>
    /\ zt' = IF offsetTime <= 0 THEN zt ELSE NewZTimer(offsetTime)
    /\ UNCHANGED <<kfp, kfs, kcall, krefs, klog>>
    /\ UNCHANGED <<pobjVars, queueVars, poolVars, mgrVars, actorVars, balVars, sysVars, groupVars, concVars, freeVars>>

\* The application sets the exported field IsLoop of a timer it has not
\* started.
SetIsLoop ==
    /\ NoPanic
    /\ zt # <<>>
    /\ ~zt.IsLoop
    /\ ~zt.isRun
    /\ zt.loops = <<>>
    /\ RWMutex_Unlocked(zt.mu)
    /\ zt' = [zt EXCEPT !.IsLoop = TRUE]
    /\ UNCHANGED <<kfp, kfs, kcall, krefs, klog>>
    /\ UNCHANGED <<pobjVars, queueVars, poolVars, mgrVars, actorVars, balVars, sysVars, groupVars, concVars, freeVars>>

\* Caller c calls AddKeyFrame(time, action).  A call with bad parameters
\* returns before it asks for zt.mu; any other call takes zt.mu and returns
\* on a running timer, or goes into GetKeyFrame with zt.mu held.
AddKeyFrameCall(c, time, action) ==
    /\ NoPanic
    /\ zt # <<>>
    /\ kcall[c].pc = "idle"
    /\ klog.ops < MaxTimerOps
    /\ (time > 0 /\ action # "nil") => RWMutex_Unlocked(zt.mu)
    /\ LET err == AddKeyFrame_check(zt, time, action)
       IN /\ klog' = [klog EXCEPT
                        !.ops = @ + 1,
                        !.add = [n |-> @.n + 1,
                                 refuse |-> time <= 0 \/ action = "nil" \/ zt.isRun,
                                 err |-> err]]
          /\ IF err # "nil"
             THEN UNCHANGED <<zt, kfp, kcall>>
             ELSE /\ zt' = [zt EXCEPT !.mu.w = <<c>>]
                  /\ GetKeyFrame_Enter(c, time, action, "AddKeyFrame", "AddKeyFrame")
    /\ UNCHANGED <<kfs, krefs>>
    /\ UNCHANGED <<pobjVars, queueVars, poolVars, mgrVars, actorVars, balVars, sysVars, groupVars, concVars, freeVars>>

\* AddKeyFrame after GetKeyFrame returned the keyframe: append; return nil.
AddKeyFrameAppend(c) ==
    /\ NoPanic
    /\ kcall[c].pc = "append"
    /\ zt' = [zt EXCEPT !.keyFrames = Append(@, kcall[c].k), !.mu.w = <<>>]
    /\ kcall' = [kcall EXCEPT ![c] = KfIdle]
    /\ UNCHANGED <<kfp, kfs, krefs, klog>>
    /\ UNCHANGED <<pobjVars, queueVars, poolVars, mgrVars, actorVars, balVars, sysVars, groupVars, concVars, freeVars>>

\* Caller c calls Start(actor), all of it under zt.mu.
StartCall(c, actor) ==
    /\ NoPanic
    /\ zt # <<>>
    /\ kcall[c].pc = "idle"
    /\ klog.ops < MaxTimerOps
    /\ RWMutex_Unlocked(zt.mu)
    /\ IF zt.isRun \/ actor = "nil" \/ Len(zt.keyFrames) = 0
       THEN /\ UNCHANGED zt
            /\ klog' = [klog EXCEPT !.ops = @ + 1]
       ELSE LET m == MaxTime(zt.keyFrames, Len(zt.keyFrames))
            IN /\ zt' = [zt EXCEPT !.MyActorBase = actor, !.currentTimer = 0,
                                   !.isRun = TRUE, !.maxTimer = m,
                                   !.loops = IF m <= 0 THEN @
                                             ELSE Append(@, LoopAtSelect)]
               /\ klog' = [klog EXCEPT !.ops = @ + 1,
                                       !.fired = [k \in KfIds |-> 0],
                                       !.over = FALSE]
    /\ UNCHANGED <<kfp, kfs, kcall, krefs>>
    /\ UNCHANGED <<pobjVars, queueVars, poolVars, mgrVars, actorVars, balVars, sysVars, groupVars, concVars, freeVars>>

\* asyncUpdateLoop, case <-zt.updateTicker.C: loop l has received a tick and
\* goes to zt.mu.RLock().
UpdateLoopTick(l) ==
    /\ NoPanic
    /\ zt # <<>>
    /\ l \in 1..Len(zt.loops)
    /\ zt.loops[l].pc = "select"
    /\ zt.updateTicker # "stopped"
    /\ zt' = [zt EXCEPT !.loops[l].pc = "RLock",
                        !.updateTicker = IF @ = "last" THEN "stopped" ELSE @]
    /\ UNCHANGED <<kfp, kfs, kcall, krefs, klog>>
    /\ UNCHANGED <<pobjVars, queueVars, poolVars, mgrVars, actorVars, balVars, sysVars, groupVars, concVars, freeVars>>

\* asyncUpdateLoop: zt.mu.RLock(); if zt.isRun the loop calls Update with the
\* read lock held, else zt.mu.RUnlock() and back to the select.
UpdateLoopRLock(l) ==
    /\ NoPanic
    /\ zt # <<>>
    /\ l \in 1..Len(zt.loops)
    /\ zt.loops[l].pc = "RLock"
    /\ RWMutex_NoWriter(zt.mu)
    /\ zt' = IF zt.isRun
             THEN [zt EXCEPT !.loops[l].pc = "Update", !.mu.r = @ + 1]
             ELSE [zt EXCEPT !.loops[l].pc = "select"]
    /\ UNCHANGED <<kfp, kfs, kcall, krefs, klog>>
    /\ UNCHANGED <<pobjVars, queueVars, poolVars, mgrVars, actorVars, balVars, sysVars, groupVars, concVars, freeVars>>

\* Update(deltaTime), called by loop l with a positive deltaTime: zt.mu.RLock()
\* a second time; the clock advances; past maxTimer+OffsetTime a looping
\* timer starts asyncResetKeyFrames and a non-looping one safeStop, and
\* Update returns; else every keyframe that is due gets a Trigger goroutine
\* and Update waits for them.  On the return both read locks are given back.
\* The ticks of a looping timer are not longer than its timeline; with
\* longer ones currentTimer grows without bound.
UpdateCall(l, deltaTime) ==
    /\ NoPanic
    /\ zt # <<>>
    /\ zt.IsLoop => deltaTime <= zt.maxTimer
    /\ l \in 1..Len(zt.loops)
    /\ zt.loops[l].pc = "Update"
    /\ RWMutex_NoWriter(zt.mu)
    /\ \A i \in 1..Len(zt.keyFrames) : kfs[zt.keyFrames[i]].mu = "free"
    /\ LET t == [zt EXCEPT !.currentTimer = @ + deltaTime]
           f == IF t.IsLoop THEN "asyncResetKeyFrames" ELSE "safeStop"
       IN IF ~zt.isRun
          THEN /\ zt' = [zt EXCEPT !.loops[l].pc = "select", !.mu.r = @ - 1]
               /\ UNCHANGED klog
          ELSE IF Update_over(t)
          THEN /\ t.async[f] < MaxAsync
               /\ zt' = [t EXCEPT !.currentTimer = IF t.IsLoop THEN @ - t.maxTimer ELSE @,
                                  !.async[f] = @ + 1,
                                  !.loops[l].pc = "select", !.mu.r = @ - 1]
               /\ klog' = [klog EXCEPT !.over = @ \/ ~t.IsLoop]
          ELSE IF Update_due(t) = {}
          THEN /\ zt' = [t EXCEPT !.loops[l].pc = "select", !.mu.r = @ - 1]
               /\ UNCHANGED klog
          ELSE /\ zt' = [t EXCEPT !.loops[l] = [pc |-> "wait", trig |-> Update_due(t)],
                                  !.mu.r = @ + 1]
               /\ UNCHANGED klog
    /\ UNCHANGED <<kfp, kfs, kcall, krefs>>
    /\ UNCHANGED <<pobjVars, queueVars, poolVars, mgrVars, actorVars, balVars, sysVars, groupVars, concVars, freeVars>>

\* A goroutine of Update calls f.Trigger() on keyframe k: under kf.mu the
\* action is started in a goroutine of its own unless the keyframe was
\* triggered before.  klog.fired counts the starts, up to two.
UpdateTrigger(l, k) ==
    /\ NoPanic
    /\ zt # <<>>
    /\ l \in 1..Len(zt.loops)
    /\ k \in zt.loops[l].trig
    /\ kfs[k].mu = "free"
    /\ kfs' = [kfs EXCEPT ![k] = KeyFrame_Trigger(@)]
    /\ klog' = [klog EXCEPT !.fired[k] = IF kfs'[k] # kfs[k] /\ @ < 2 THEN @ + 1 ELSE @]
    /\ zt' = [zt EXCEPT !.loops[l].trig = @ \ {k}]
    /\ UNCHANGED <<kfp, kcall, krefs>>
    /\ UNCHANGED <<pobjVars, queueVars, poolVars, mgrVars, actorVars, balVars, sysVars, groupVars, concVars, freeVars>>

\* Update: every Trigger goroutine is done, errChan is closed, Update returns
\* and the loop calls zt.mu.RUnlock().
UpdateErrChanClosed(l) ==
    /\ NoPanic
    /\ zt # <<>>
    /\ l \in 1..Len(zt.loops)
    /\ zt.loops[l] = [pc |-> "wait", trig |-> {}]
    /\ zt' = [zt EXCEPT !.loops[l] = LoopAtSelect, !.mu.r = @ - 2]
    /\ UNCHANGED <<kfp, kfs, kcall, krefs, klog>>
    /\ UNCHANGED <<pobjVars, queueVars, poolVars, mgrVars, actorVars, balVars, sysVars, groupVars, concVars, freeVars>>

\* asyncUpdateLoop, case <-zt.stopChan on the closed channel: the ticker is
\* stopped and the goroutine returns.
UpdateLoopExit(l) ==
    /\ NoPanic
    /\ zt # <<>>
    /\ l \in 1..Len(zt.loops)
    /\ zt.loops[l].pc = "select"
    /\ zt.stopChan = "closed"
    /\ \E ticker \in Ticker_Stop(zt.updateTicker) :
          zt' = [zt EXCEPT !.loops = RemoveAt(@, l), !.updateTicker = ticker]
    /\ UNCHANGED <<kfp, kfs, kcall, krefs, klog>>
    /\ UNCHANGED <<pobjVars, queueVars, poolVars, mgrVars, actorVars, balVars, sysVars, groupVars, concVars, freeVars>>

\* A goroutine of f (safeStop, asyncResetKeyFrames) calls zt.mu.Lock() while
\* read locks are held: it waits, and keeps new readers out.
AsyncLockWait(f) ==
    /\ NoPanic
    /\ zt # <<>>
    /\ zt.async[f] > 0
    /\ RWMutex_NoWriter(zt.mu)
    /\ zt.mu.r > 0
    /\ zt' = [zt EXCEPT !.mu.p = <<f>>]
    /\ UNCHANGED <<kfp, kfs, kcall, krefs, klog>>
    /\ UNCHANGED <<pobjVars, queueVars, poolVars, mgrVars, actorVars, balVars, sysVars, groupVars, concVars, freeVars>>

\* zt.mu.Lock() is granted to a goroutine of f: no read lock is held, and no
\* other writer holds the lock or waits in front.
AsyncLocks(f) ==
    /\ zt # <<>>
    /\ zt.async[f] > 0
    /\ zt.mu.w = <<>>
    /\ zt.mu.r = 0
    /\ zt.mu.p \in {<<>>, <<f>>}

\* safeStop, all of it under zt.mu: on a running timer the non-blocking send
\* on stopChan, which a loop waiting in its select receives (it stops the
\* ticker and returns), and isRun = false.  A send on a closed channel
\* panics, and the panic ends the program.
safeStop ==
    /\ NoPanic
    /\ AsyncLocks("safeStop")
    /\ LET t == [zt EXCEPT !.async["safeStop"] = @ - 1, !.mu.p = <<>>]
       IN IF ~zt.isRun
          THEN /\ zt' = t
               /\ UNCHANGED <<kcall, klog>>
          ELSE IF zt.stopChan = "closed"
          THEN /\ zt' = t
               /\ kcall' = [c \in Callers |-> [KfIdle EXCEPT !.pc = "panic"]]
               /\ UNCHANGED klog
          ELSE IF safeStop_receivers(zt) = {}
          THEN /\ zt' = [t EXCEPT !.isRun = FALSE]
               /\ klog' = [klog EXCEPT !.sent = <<FALSE>>]
               /\ UNCHANGED kcall
          ELSE /\ \E l \in safeStop_receivers(zt), ticker \in Ticker_Stop(zt.updateTicker) :
                     zt' = [t EXCEPT !.isRun = FALSE, !.loops = RemoveAt(@, l),
                                     !.updateTicker = ticker]
               /\ klog' = [klog EXCEPT !.sent = <<TRUE>>]
               /\ UNCHANGED kcall
    /\ UNCHANGED <<kfp, kfs, krefs>>
    /\ UNCHANGED <<pobjVars, queueVars, poolVars, mgrVars, actorVars, balVars, sysVars, groupVars, concVars, freeVars>>

\* asyncResetKeyFrames, all of it under zt.mu: kf.Reset() for every keyframe
\* of the timer.
asyncResetKeyFrames ==
    /\ NoPanic
    /\ AsyncLocks("asyncResetKeyFrames")
    /\ \A i \in 1..Len(zt.keyFrames) : kfs[zt.keyFrames[i]].mu = "free"
    /\ zt' = [zt EXCEPT !.async["asyncResetKeyFrames"] = @ - 1, !.mu.p = <<>>]
    /\ kfs' = [k \in KfIds |->
                 IF k \in {zt.keyFrames[i] : i \in 1..Len(zt.keyFrames)}
                 THEN [kfs[k] EXCEPT !.IsTrigger = FALSE] ELSE kfs[k]]
    /\ UNCHANGED <<kfp, kcall, krefs, klog>>
    /\ UNCHANGED <<pobjVars, queueVars, poolVars, mgrVars, actorVars, balVars, sysVars, groupVars, concVars, freeVars>>

\* StopTimer with zt.mu held by caller c: a timer that is not running is
\* left alone; on a running one isRun = false and close(zt.stopChan), which
\* panics on a channel closed before.
StopTimer_locked(c) ==
    IF ~zt.isRun
    THEN /\ zt' = [zt EXCEPT !.mu.p = <<>>]
         /\ kcall' = [kcall EXCEPT ![c] = KfIdle]
         /\ klog' = [klog EXCEPT !.ops = IF kcall[c].pc = "idle" THEN @ + 1 ELSE @,
                                 !.stop = <<>>]
    ELSE IF zt.stopChan = "closed"
    THEN /\ zt' = [zt EXCEPT !.isRun = FALSE, !.mu.p = <<>>]
         /\ kcall' = [kcall EXCEPT ![c] = [KfIdle EXCEPT !.pc = "panic",
                                                         !.op = "StopTimer"]]
         /\ klog' = [klog EXCEPT !.ops = IF kcall[c].pc = "idle" THEN @ + 1 ELSE @,
                                 !.stop = <<>>]
    ELSE /\ zt' = [zt EXCEPT !.isRun = FALSE, !.stopChan = "closed",
                             !.mu.w = <<c>>, !.mu.p = <<>>]
         /\ kcall' = [kcall EXCEPT ![c] = [KfIdle EXCEPT !.pc = "stop.wait",
                                                         !.op = "StopTimer"]]
         /\ klog' = [klog EXCEPT !.ops = IF kcall[c].pc = "idle" THEN @ + 1 ELSE @,
                                 !.stop = <<>>]

\* Caller c calls StopTimer: zt.mu.Lock() is granted at once, or the call
\* waits in Lock() for the readers to leave and keeps new readers out.
StopTimerCall(c) ==
    /\ NoPanic
    /\ zt # <<>>
    /\ kcall[c].pc = "idle"
    /\ klog.ops < MaxTimerOps
    /\ RWMutex_NoWriter(zt.mu)
    /\ IF zt.mu.r > 0
       THEN /\ zt' = [zt EXCEPT !.mu.p = <<c>>]
            /\ kcall' = [kcall EXCEPT ![c] = [KfIdle EXCEPT !.pc = "stop.Lock",
                                                            !.op = "StopTimer"]]
            /\ klog' = [klog EXCEPT !.ops = @ + 1, !.stop = <<>>]
       ELSE StopTimer_locked(c)
    /\ UNCHANGED <<kfp, kfs, krefs>>
    /\ UNCHANGED <<pobjVars, queueVars, poolVars, mgrVars, actorVars, balVars, sysVars, groupVars, concVars, freeVars>>

\* StopTimer: the zt.mu.Lock() caller c waits in is granted.
StopTimerLock(c) ==
    /\ NoPanic
    /\ kcall[c].pc = "stop.Lock"
    /\ zt.mu.r = 0
    /\ StopTimer_locked(c)
    /\ UNCHANGED <<kfp, kfs, krefs>>
    /\ UNCHANGED <<pobjVars, queueVars, poolVars, mgrVars, actorVars, balVars, sysVars, groupVars, concVars, freeVars>>

\* StopTimer: zt.asyncWG.Wait() returns when every update loop has returned.
StopTimerWait(c) ==
    /\ NoPanic
    /\ kcall[c].pc = "stop.wait"
    /\ zt.loops = <<>>
    /\ kcall' = [kcall EXCEPT ![c].pc = "stop.range", ![c].i = 1]
    /\ UNCHANGED <<kfp, kfs, krefs, klog, zt>>
    /\ UNCHANGED <<pobjVars, queueVars, poolVars, mgrVars, actorVars, balVars, sysVars, groupVars, concVars, freeVars>>

\* StopTimer: for _, kf := range zt._keyFrames { ReleaseKeyFrame(kf) }, then
\* zt._keyFrames = nil and the return.  klog.stop keeps what holds at the
\* return.
StopTimerRange(c) ==
    /\ NoPanic
    /\ kcall[c].pc = "stop.range"
    /\ IF kcall[c].i <= Len(zt.keyFrames)
       THEN /\ kcall' = [kcall EXCEPT ![c].pc = "rel.lock", ![c].ret = "StopTimer",
                                      ![c].k = zt.keyFrames[kcall[c].i]]
            /\ UNCHANGED <<zt, klog>>
       ELSE /\ zt' = [zt EXCEPT !.keyFrames = <<>>, !.mu.w = <<>>]
            /\ klog' = [klog EXCEPT !.stop =
                          <<[errs |-> kcall[c].errs,
                             loops |-> Len(zt.loops),
                             isRun |-> zt.isRun,
                             pooled |-> \A i \in 1..Len(zt.keyFrames) :
                                           InPool(zt.keyFrames[i]) > 0]>>]
            /\ kcall' = [kcall EXCEPT ![c] = KfIdle]
    /\ UNCHANGED <<kfp, kfs, krefs>>
    /\ UNCHANGED <<pobjVars, queueVars, poolVars, mgrVars, actorVars, balVars, sysVars, groupVars, concVars, freeVars>>

\* The calls on a timer and their steps, with the update loop's select on
\* the closed stopChan: a timer whose ticker has not fired.
TimerCallsNext ==
    \/ \E offsetTime \in KfTimes : CallNewZTimer(offsetTime)
    \/ \E c \in Callers, time \in KfTimes, action \in KfActions :
          AddKeyFrameCall(c, time, action)
    \/ \E c \in Callers : AddKeyFrameAppend(c)
    \/ \E c \in Callers, actor \in ActorRefs : StartCall(c, actor)
    \/ \E l \in 1..MaxTimerOps : UpdateLoopExit(l)
    \/ \E c \in Callers : StopTimerCall(c)
    \/ \E c \in Callers : StopTimerWait(c)
    \/ \E c \in Callers : StopTimerRange(c)
    \/ KeyFrameSteps

\* The ticks of the update loops and the goroutines Update starts.
TimerLoopNext ==
    \/ SetIsLoop
    \/ \E l \in 1..MaxTimerOps : UpdateLoopTick(l)
    \/ \E l \in 1..MaxTimerOps : UpdateLoopRLock(l)
    \/ \E l \in 1..MaxTimerOps, deltaTime \in Deltas : UpdateCall(l, deltaTime)
    \/ \E l \in 1..MaxTimerOps, k \in KfIds : UpdateTrigger(l, k)
    \/ \E l \in 1..MaxTimerOps : UpdateErrChanClosed(l)
    \/ \E f \in AsyncFuncs : AsyncLockWait(f)
    \/ safeStop
    \/ asyncResetKeyFrames
    \/ \E c \in Callers : StopTimerLock(c)

TimerNext == TimerCallsNext \/ TimerLoopNext

\* What the scheduler and the ticker guarantee a timer: every goroutine that
\* can take its next step takes it, the ticker keeps sending while it is not
\* stopped, a goroutine that calls zt.mu.Lock() gets the lock once it is
\* free for writers, and a select takes a case that is ready again and
\* again.  When the application makes its calls is left open.
TimerFairness ==
    /\ WF_vars(\E l \in 1..MaxTimerOps : UpdateLoopTick(l))
    /\ WF_vars(\E l \in 1..MaxTimerOps : UpdateLoopRLock(l))
    /\ WF_vars(\E l \in 1..MaxTimerOps, deltaTime \in Deltas : UpdateCall(l, deltaTime))
    /\ WF_vars(\E l \in 1..MaxTimerOps, k \in KfIds : UpdateTrigger(l, k))
    /\ WF_vars(\E l \in 1..MaxTimerOps : UpdateErrChanClosed(l))
    /\ SF_vars(\E l \in 1..MaxTimerOps : UpdateLoopExit(l))
    /\ WF_vars(AsyncLockWait("safeStop") \/ safeStop)
    /\ WF_vars(AsyncLockWait("asyncResetKeyFrames") \/ asyncResetKeyFrames)
    /\ \A c \in Callers :
          /\ WF_vars(AddKeyFrameAppend(c))
          /\ WF_vars(StopTimerLock(c))
          /\ WF_vars(StopTimerWait(c))
          /\ WF_vars(StopTimerRange(c))
    /\ WF_vars(KeyFrameSteps)

(***************************************************************************)
(*                           Specifications                                *)
(***************************************************************************)
Init == PObjInit /\ QueueInit /\ PoolInit /\ ManagerInit /\ ActorInit
        /\ BalancerInit /\ SystemInit /\ GroupInit
        /\ ConcInit /\ FreeListInit /\ KeyFrameInit

Next == PObjNext \/ QueueNext \/ PoolNext \/ ManagerNext \/ ActorNext
        \/ BalancerNext \/ SystemNext \/ GroupNext
        \/ ConcNext \/ FreeListNext \/ KeyFrameNext \/ TimerNext

\* One free-list pool and its callers.
SpecFreeList == Init /\ [][FreeListNext]_vars

\* The keyframe pool, its warm-up goroutine and its callers.
SpecKeyFrame == Init /\ [][KeyFrameNext]_vars

\* One timer whose ticker has not fired, its callers and the keyframe pool.
SpecTimer == Init /\ [][TimerCallsNext]_vars

\* One timer, its callers, its ticking update loops, the goroutines of
\* safeStop and asyncResetKeyFrames and the keyframe pool, fairly scheduled.
SpecTimerLoop == Init /\ [][TimerNext]_vars /\ TimerFairness

\* The whole program.
Spec == Init /\ [][Next]_vars

\* One wrapper of each copy and its callers.
SpecPObject == Init /\ [][PObjNext]_vars

\* One queue, its producer and its consumer.
SpecQueue == Init /\ [][QueueNext]_vars

\* One pool, its warm-up goroutine and its callers.
SpecPool == Init /\ [][PoolNext]_vars

\* One manager and its callers.
SpecManager == Init /\ [][ManagerNext]_vars

\* One actor, its senders, its processing loop and its handlers.
SpecActor == Init /\ [][ActorNext]_vars

\* One balancer, its submitting goroutine and its workers.
SpecBalancer == Init /\ [][BalancerNext]_vars

\* One system and the callers of AddGroupActors.
SpecSystem == Init /\ [][SystemNext]_vars

\* One group, its tick loop, the callers of AddActor and the Update goroutines.
SpecGroup == Init /\ [][GroupNext]_vars

\* One balancer, several submitting goroutines, its workers and the owner of
\* its context.  The select of a run loop chooses at random among the cases
\* that are ready, so a loop whose ctx.Done() stays ready leaves in the end.
SpecSubmitters ==
    /\ Init
    /\ [][ConcNext]_vars
    /\ \A w \in WorkerIds : WF_vars(ConcWorkerExit(w))


(***************************************************************************)
(*                      Properties of the PObject                          *)
(***************************************************************************)

\* The successful calls of a wrapper never hold two GetObj in a row.
NoTwoGets(h) == \A i \in 1..(Len(h) - 1) : ~(h[i] = "GetObj" /\ h[i + 1] = "GetObj")

\* C1: on either copy of the wrapper, a GetObj issued while the wrapper is in
\* use returns ok = false, runs no callback and changes neither the flag nor
\* the stored callbacks; so no two successful GetObj follow each other without
\* a successful ReleaseObj between them, and the wrapper is in use exactly
\* when its last successful call was a GetObj.
C1_GetObjWhileInUseFails ==
    /\ (plast.op = "GetObj" /\ plast.before.isUsing) =>
          /\ ~plast.ok
          /\ plast.ret = <<>>
          /\ plast.invoked = <<>>
          /\ pobj[plast.copy] = plast.before
    /\ \A c \in Copies :
          /\ NoTwoGets(phist[c])
          /\ pobj[c] # <<>> =>
                (pobj[c].isUsing <=>
                    (phist[c] # <<>> /\ phist[c][Len(phist[c])] = "GetObj"))

\* C1 witness: a wrapper was taken, released and taken again, and a further
\* GetObj on it has just failed.
C1_Witness ==
    /\ plast.op = "GetObj"
    /\ plast.copy = "manager"
    /\ plast.before.isUsing
    /\ ~plast.ok
    /\ phist["manager"] = <<"GetObj", "ReleaseObj", "GetObj">>

\* C2: ReleaseObj on a wrapper that is not in use returns false and runs no
\* callback; on a wrapper in use it returns true, runs the stored release
\* callback exactly once (on the value handed in) and leaves the wrapper not
\* in use with both callbacks cleared.  Stated of both copies of the wrapper.
C2_ReleaseObjContract ==
    plast.op = "ReleaseObj" =>
        IF plast.before.isUsing
        THEN /\ plast.ok
             /\ plast.before.callback # "nil" =>
                    /\ Len(plast.invoked) = 1
                    /\ plast.invoked[1].fn = plast.before.callback
             /\ plast.before.callback = "nil" => plast.invoked = <<>>
             /\ ~pobj[plast.copy].isUsing
             /\ pobj[plast.copy].init = "nil"
             /\ pobj[plast.copy].callback = "nil"
        ELSE /\ ~plast.ok
             /\ plast.invoked = <<>>
             /\ pobj[plast.copy] = plast.before


(***************************************************************************)
(*                    Properties of the MessageQueue                       *)
(***************************************************************************)

\* C3: on a queue of capacity N that starts empty, as long as no Dequeue has
\* been called, each of the first N Enqueue calls returns true and the
\* (N+1)-th returns false.
C3_FirstNEnqueuesSucceed ==
    (q # <<>> /\ qlog.deqCalls = 0) =>
        \A i \in 1..Len(qlog.enq) :
            /\ i <= q.size => qlog.enq[i].ok
            /\ i = q.size + 1 => ~qlog.enq[i].ok

QueueIsInert ==
    /\ \A i \in 1..Len(qlog.enq) : ~qlog.enq[i].ok
    /\ \A i \in 1..Len(qlog.deq) : ~qlog.deq[i].ok
    /\ prod.pc \in {"idle", "loadTail", "check"}
    /\ cons.pc \in {"idle", "loadHead", "loadTail"}


(***************************************************************************)
(*                 Properties of the GenericObjectPool                     *)
(***************************************************************************)

\* Caller c has returned from a call of op.
Returned(c, op) == call[c].op = op /\ call[c].pc = "idle"

\* The callers that have value v on loan: it is in their hands, or in the
\* hands of their GetObj call that has taken it and not yet returned.
Holders(v) ==
    {c \in Callers : v \in held[c] \/ (call[c].pc = "onGet" /\ call[c].obj = <<v>>)}

\* C6: every ReleaseObj that returns nil has called the value's OnRelease()
\* exactly once, on the hot-cache path and on the overflow path alike, so a
\* value that is back in the hot cache or in the overflow tier after a
\* checkout has OnRelease as its last hook.
C6_OnReleaseOncePerReturn ==
    /\ \A c \in Callers :
          (Returned(c, "ReleaseObj") /\ call[c].err = "nil") => call[c].onRelease = 1
    /\ gop # <<>> =>
          \A v \in Range(gop.hotCache) \cup Range(gop.pool) : objs[v] # "OnGet"

\* C7: GetObj takes from the hot cache exactly when the cache is not empty at
\* its select, goes to the overflow allocator (sync.Pool, then the factory)
\* only on a miss, and on both paths has called OnGet() exactly once on the
\* value when it returns; a value on loan has OnGet as its last hook.
C7_GetObjCacheFirst ==
    /\ \A c \in Callers :
          call[c].op = "GetObj" =>
              /\ call[c].hit <=> call[c].nonEmpty
              /\ call[c].hit <=> call[c].src = "hot"
              /\ call[c].pc = "poolGet" => ~call[c].nonEmpty
              /\ call[c].pc = "onGet" => call[c].onGet = 0
              /\ call[c].pc = "idle" =>
                    /\ call[c].onGet = 1
                    /\ call[c].src \in {"hot", "pool", "factory"}
    /\ \A c \in Callers : \A v \in held[c] : objs[v] = "OnGet"

\* C7 witness: one caller's GetObj was served by the hot cache and the other
\* caller's by the factory behind the overflow tier; both have returned.
C7_Witness ==
    /\ Returned("c1", "GetObj") /\ call["c1"].src = "hot"
    /\ Returned("c2", "GetObj") /\ call["c2"].src = "factory"
    /\ held["c1"] # {} /\ held["c2"] # {}

\* C8: as long as every ReleaseObj hands back a value its caller holds, no
\* value is on loan to two callers and no value in the hot cache is on loan.
C8_OneHolderPerValue ==
    (gop # <<>> /\ ~plog.misuse) =>
        \A v \in AllObjs :
            /\ Cardinality(Holders(v)) <= 1
            /\ v \in Range(gop.hotCache) => Holders(v) = {}

\* C8 witness: both callers hold a value, a value has gone back to the pool
\* and come out again, and every release so far was of a held value.
C8_Witness ==
    /\ ~plog.misuse
    /\ plog.nRels >= 1
    /\ held["c1"] # {} /\ held["c2"] # {}
    /\ \E k \in 1..Len(plog.gets) :
          plog.gets[k].relsBefore >= 1 /\ plog.gets[k].src \in {"hot", "pool"}

\* C9: a ReleaseObj of a value that was not checked out from the pool returns
\* an error, does not abort its caller, and changes nothing in the pool.
C9_ForeignReleaseRejected ==
    \A c \in Callers :
        (call[c].op = "ReleaseObj" /\ ~call[c].legit /\ call[c].pc \in {"idle", "panic"}) =>
            /\ call[c].pc # "panic"
            /\ call[c].err = "error"
            /\ ~call[c].changed

\* C10: when no call reached the pool before the warm-up goroutine finished,
\* the first cacheSize GetObj calls with no ReleaseObj before them are served
\* by the hot cache, the factory has then run cacheSize times in all (the
\* warm-up's), and the GetObj after them, while no ReleaseObj has been called,
\* is the first to reach the factory.
C10_WarmCacheServesFirstC ==
    (gop # <<>> /\ ~plog.early) =>
        /\ \A k \in 1..Len(plog.gets) :
              plog.gets[k].relsBefore = 0 =>
                  /\ k <= gop.cacheSize => plog.gets[k].src = "hot"
                  /\ (k = gop.cacheSize + 1 /\ plog.nRels = 0) =>
                        plog.gets[k].src \in {"miss", "factory"}
        /\ (warm.pc = "done" /\ plog.nRels = 0 /\ Len(plog.gets) <= gop.cacheSize) =>
              plog.factory = gop.cacheSize

\* C10 witness: a pool of capacity 2 or more, warmed before any call; its
\* first cacheSize GetObj calls hit the cache and the next one reached the
\* factory.
C10_Witness ==
    /\ gop # <<>>
    /\ gop.cacheSize >= 2
    /\ ~plog.early
    /\ plog.nRels = 0
    /\ Len(plog.gets) = gop.cacheSize + 1
    /\ plog.gets[gop.cacheSize].src = "hot"
    /\ plog.gets[gop.cacheSize + 1].src = "factory"

(***************************************************************************)
(*                 Progress of GetObj and ReleaseObj                       *)
(***************************************************************************)

\* C11: no statement of GetObj or ReleaseObj waits.  A caller may enter
\* either call in every state of the pool - empty or full hot cache, warm-up
\* running or done, the other caller in the middle of its own call - and
\* every later statement of the call can be executed at once, so the call
\* completes.  (The factory of the model makes MaxObjs objects.)
C11_GetObjReleaseObjNeverWait ==
    \A c \in Callers :
        /\ (gop # <<>> /\ call[c].pc = "idle" /\ PoolOps < MaxPoolOps) =>
              /\ ENABLED GetObjCall(c)
              /\ \A v \in held[c] : ENABLED ReleaseObjCall(c, v)
        /\ (call[c].pc = "poolGet" /\ plog.factory < MaxObjs) =>
              ENABLED GetObjPoolGet(c)
        /\ call[c].pc = "onGet" => ENABLED GetObjOnGet(c)
        /\ call[c].pc = "put" => ENABLED ReleaseObjPut(c)

\* C11 witness: with the warm-up still running, one caller has returned from
\* a GetObj that found the hot cache empty and the other from a ReleaseObj
\* that found it full.
C11_Witness ==
    /\ warm.pc # "done"
    /\ \E c, d \in Callers :
          /\ c # d
          /\ Returned(c, "GetObj") /\ ~call[c].nonEmpty /\ call[c].err = "nil"
          /\ Returned(d, "ReleaseObj") /\ call[d].src = "pool" /\ call[d].err = "nil"

(***************************************************************************)
(*                      Properties of the Manager                          *)
(***************************************************************************)

\* The pool of the first successful RegisterPool(name) among the first k
\* completed calls, as <<pool>>, or <<>> when there is none.
Registered(name, k) ==
    LET S == {i \in 1..k : /\ mlog[i].op = "RegisterPool"
                           /\ mlog[i].name = name
                           /\ mlog[i].err = "nil"}
    IN IF S = {} THEN <<>>
       ELSE mlog[CHOOSE i \in S : \A j \in S : i <= j].pool

\* C12: RegisterPool on an unregistered name stores the pool and returns nil;
\* on a registered name it returns ErrPoolAlreadyRegistered and the first
\* registration stays.  GetPool returns the registered pool and nil, or nil
\* and ErrPoolNotFound for an unregistered name.  Whatever the overlap of the
\* calls, at most one RegisterPool per name returns nil, and exactly one once
\* every RegisterPool for the name has returned.
C12_RegistryContract ==
    /\ \A k \in 1..Len(mlog) :
          LET e == mlog[k]
              before == Registered(e.name, k - 1)
          IN /\ e.op = "RegisterPool" =>
                    e.err = (IF before = <<>> THEN "nil"
                             ELSE "ErrPoolAlreadyRegistered")
             /\ e.op = "GetPool" =>
                    /\ e.ret = before
                    /\ e.err = (IF before = <<>> THEN "ErrPoolNotFound" ELSE "nil")
    /\ mgr # <<>> =>
          \A name \in PoolNames :
              LET reg == Registered(name, Len(mlog))
              IN /\ PoolExists(mgr, name) <=> reg # <<>>
                 /\ reg # <<>> => mgr.pools[name] = reg[1]

\* C12 witness: two RegisterPool calls for one name with different pools
\* overlapped; one returned nil, the other ErrPoolAlreadyRegistered, and a
\* GetPool for the name then returned the pool of the first.
C12_Witness ==
    /\ Len(mlog) = 3
    /\ mlog[1].op = "RegisterPool" /\ mlog[1].err = "nil"
    /\ mlog[2].op = "RegisterPool" /\ mlog[2].err = "ErrPoolAlreadyRegistered"
    /\ mlog[2].name = mlog[1].name /\ mlog[2].pool # mlog[1].pool
    /\ mlog[1].overlap \/ mlog[2].overlap
    /\ mlog[3].op = "GetPool" /\ mlog[3].name = mlog[1].name
    /\ mlog[3].err = "nil" /\ mlog[3].ret = mlog[1].pool

(***************************************************************************)
(*                     Properties of the BaseActor                         *)
(***************************************************************************)

\* C13: when processMessages has returned, every message that was sent to
\* the mailbox before the context was cancelled has been dispatched and its
\* handler has returned - the messages of the partial batch and the messages
\* still in the mailbox at the cancellation alike.
C13_NoMessageLostOnShutdown ==
    (act # <<>> /\ act.pc = "exited") =>
        \A m \in 1..alog.atCancel : hnd[m].st = "returned"

\* C14: at most one batch is in flight.  Every running handler belongs to
\* the batch dispatched last and processMessages is then inside wg.Wait();
\* no message was taken from the mailbox and no batch was started while a
\* handler was running.
C14_OneBatchInFlight ==
    /\ ~alog.busyRecv
    /\ ~alog.busySpawn
    /\ \A m \in Msgs :
          hnd[m].st = "running" =>
             /\ hnd[m].batch = Len(alog.batches)
             /\ act.pc = "wait"

\* C14 witness: the handler of a first batch has returned, a handler of the
\* second batch is running and a further message waits in the mailbox.
C14_Witness ==
    /\ act # <<>>
    /\ Len(alog.batches) = 2
    /\ \E m \in Msgs : hnd[m].batch = 1 /\ hnd[m].st = "returned"
    /\ \E m \in Msgs : hnd[m].batch = 2 /\ hnd[m].st = "running"
    /\ act.mailbox # <<>>

\* C15: a panic of a handler stays inside its goroutine: the processing loop
\* goes on and no other handler is cut short.
C15_HandlerPanicContained ==
    (\E m \in Msgs : hnd[m].st = "panicked") =>
        /\ act.pc # "crashed"
        /\ \A k \in Msgs : hnd[k].st # "killed"

\* The messages of the batches b[1], ..., b[n], one batch after the other.
RECURSIVE Flatten(_, _)
Flatten(b, n) == IF n = 0 THEN <<>> ELSE Flatten(b, n - 1) \o b[n]

\* The messages processMessages has received and not yet handed over: its
\* local batch, outside a batchHandle call.
Pending ==
    IF act.pc \in {"select", "batchHandle"} THEN act.msgs ELSE <<>>

\* C28: every message taken from the mailbox is in exactly one dispatched
\* batch or still in the local batch, batches follow the order of the
\* mailbox (the batches one after the other, then the local batch, then the
\* mailbox are the messages in the order sent), and every batch dispatched
\* before the shutdown flush holds between 1 and batchSize messages.
C28_BatchesInMailboxOrder ==
    act # <<>> =>
        /\ Flatten(alog.batches, Len(alog.batches)) \o Pending \o act.mailbox
              = [i \in 1..alog.sent |-> i]
        /\ \A i \in 1..Len(alog.batches) :
              i # alog.flush =>
                 /\ Len(alog.batches[i]) >= 1
                 /\ Len(alog.batches[i]) <= batchSize

\* C28 witness: a full batch and then a partial batch were dispatched while
\* the actor was running, and every message sent is in one of them.
C28_Witness ==
    /\ act # <<>>
    /\ alog.flush = 0
    /\ Len(alog.batches) = 2
    /\ Len(alog.batches[1]) = batchSize
    /\ Len(alog.batches[2]) < batchSize
    /\ alog.sent = MaxMsgs
    /\ act.mailbox = <<>>

(***************************************************************************)
(*                      Properties of the Balancer                         *)
(***************************************************************************)

\* The workers whose inbox holds task t.
InboxesOf(t) == {w \in 1..Len(bal.workers) : t \in Range(bal.workers[w].ch)}

\* The Submit calls that found their target's inbox full.
Expansions == {t \in 1..Len(blog.targets) : blog.targets[t].full}

WorkerCap(b) == b.numCPU * 10

\* C17: the number of workers never exceeds ten per processing unit.
C17_WorkerCountCapped ==
    bal # <<>> => Len(bal.workers) <= WorkerCap(bal)

\* C18: every Submit with a task advances the counter by one and targets
\* the worker at counter mod worker count, so W consecutive Submit calls on
\* W workers without an expansion target each worker once; Submit(nil)
\* advances nothing.
C18_RoundRobin ==
    bal # <<>> =>
       /\ bal.index = Len(blog.targets)
       /\ \A w \in 1..Len(bal.workers) :
             Range(bal.workers[w].ch) \subseteq 1..Len(blog.targets)
       /\ \A t \in 1..Len(blog.targets) :
             blog.targets[t].idx = t % blog.targets[t].len
       /\ \A t \in 1..Len(blog.targets) :
             LET W == blog.targets[t].len
                 window == t..(t + W - 1)
             IN (/\ t + W - 1 <= Len(blog.targets)
                 /\ \A u \in window : blog.targets[u].len = W
                                      /\ ~blog.targets[u].full)
                => {blog.targets[u].idx : u \in window} = 0..(W - 1)

\* C18 witness: on three workers a Submit(nil) was made and three Submit
\* calls in a row, none expanding, targeted three different workers.
C18_Witness ==
    /\ bal # <<>>
    /\ blog.nilSeen
    /\ Len(bal.workers) = 3
    /\ Len(blog.targets) = 3
    /\ Expansions = {}
    /\ {blog.targets[u].idx : u \in 1..3} = {0, 1, 2}

(***************************************************************************)
(*                       Properties of the System                          *)
(***************************************************************************)

\* The actors of group id that the calls returned so far and the calls in
\* progress were to add.
ActorsDue(id) ==
    LET RECURSIVE Sum(_)
        Sum(k) == IF k = 0 THEN 0
                  ELSE Sum(k - 1) + (IF slog.returned[k].gid = id
                                     THEN slog.returned[k].n ELSE 0)
        Busy(c) == IF scall[c].pc = "range" /\ scall[c].gid = id
                   THEN scall[c].i ELSE 0
    IN Sum(Len(slog.returned)) + Busy("c1") + Busy("c2")

\* C19: AddGroupActors returns, for a group id that exists and for one
\* referenced for the first time.  A call in progress can execute its next
\* statement unless another call holds FuncgroupLock, and it never ends in
\* a fatal error; once it has returned, the group exists and holds one
\* actor, initialised with the shared context, per factory.
C19_AddGroupActorsReturns ==
    sys # <<>> =>
       /\ \A c \in Callers :
             /\ scall[c].pc # "fatal"
             /\ scall[c].pc # "idle" =>
                   \/ ENABLED AddGroupActorsStep(c)
                   \/ \E d \in Callers \ {c} : sys.mu.w = <<d>>
                   \/ sys.mu.w = <<"stop">>
       /\ \A k \in 1..Len(slog.returned) :
             GroupExists(sys, slog.returned[k].gid)
       /\ \A id \in DOMAIN sys.groups :
             /\ Len(sys.groups[id].actors) = ActorsDue(id)
             /\ \A j \in 1..Len(sys.groups[id].actors) :
                   sys.groups[id].actors[j].ctx = "s.ctx"

\* C20: concurrent first references to one group id create at most one
\* Group and start at most one tick loop for it, and every caller obtains
\* that Group: a caller that has left getOrCreateGroup holds the group of
\* the map, and a caller inside it is not waiting for a lock it holds.
C20_OneGroupPerId ==
    sys # <<>> =>
       /\ \A id \in GroupIds : slog.groups[id] <= 1 /\ slog.loops[id] <= 1
       /\ \A c \in Callers :
             /\ scall[c].pc = "range" =>
                   /\ GroupExists(sys, scall[c].gid)
                   /\ sys.groups[scall[c].gid].no = scall[c].g
             /\ scall[c].pc = "create.Lock" => sys.mu.w # <<c>>

(***************************************************************************)
(*                        Properties of the Group                          *)
(***************************************************************************)

\* Tick k has left its loop body.
TickOver(k) == k < Len(glog.ticks) \/ tick.pc # "range"

\* C21: a tick dispatches one Update to each actor that is in the group
\* when the tick takes the lock, in the order of the slice, and to no other;
\* while the tick is at work the slice does not change.  This holds with
\* Updates of an earlier tick still running and with AddActor calls waiting.
C21_TickUpdatesEachActorOnce ==
    \A k \in 1..Len(glog.ticks) :
        LET t == glog.ticks[k]
        IN IF TickOver(k)
           THEN t.sent = t.actors
           ELSE /\ t.sent = SubSeq(t.actors, 1, tick.i)
                /\ grp.actors = t.actors

\* C21 witness: a second tick found three actors and dispatched three
\* Updates while Updates of the first tick were running, and an AddActor was
\* called while a tick held the lock.
C21_Witness ==
    /\ Len(glog.ticks) = 2
    /\ TickOver(2)
    /\ glog.ticks[2].actors = <<1, 2, 3>>
    /\ glog.ticks[2].sent = <<1, 2, 3>>
    /\ glog.ticks[2].overlap
    /\ glog.addWaited

\* C23: after the System's context is cancelled the tick loop dispatches no
\* further Update.
C23_NoUpdateAfterStop ==
    \A k \in 1..Len(glog.ticks) :
        glog.ticks[k].late => glog.ticks[k].sent = <<>>

\* C22: System.Stop, called once, terminates whatever AddGroupActors calls
\* run beside it: while it waits for FuncgroupLock the call that holds the
\* lock can go on.  When it has returned, the shared context is cancelled
\* and every actor of every group has been stopped.
C22_StopTerminates ==
    sys # <<>> =>
       /\ sstop.pc \in {"Lock", "range"} =>
             \/ ENABLED StopStep
             \/ \E c \in Callers : sys.mu.w = <<c>> /\ ENABLED AddGroupActorsStep(c)
       /\ sstop.pc = "returned" =>
             /\ sys.ctxDone
             /\ sstop.stopped = AllGroupActors(sys)

(***************************************************************************)
(*          Properties of the Balancer under several submitters            *)
(***************************************************************************)

\* C24: once the context given to NewBalancer is cancelled, every run loop
\* exits - of the workers NewBalancer made and of every worker an expansion
\* made, before or after the cancellation.
C24_WorkersExitAfterCancel ==
    (cbal # <<>> /\ cbal.ctxDone) ~> (\A w \in WorkerIds : cwk[w].st # "run")

\* C24 witness: after the cancellation a worker of NewBalancer and a worker
\* of an expansion have left their run loops, and a task was run before.
C24_Witness ==
    /\ cbal # <<>>
    /\ cbal.ctxDone
    /\ clog.executed # <<>>
    /\ \E w \in WorkerIds : w <= cbal.numCPU /\ cwk[w].st = "exited"
    /\ \E w \in WorkerIds : w > cbal.numCPU /\ cwk[w].st = "exited"
    /\ \A w \in WorkerIds : cwk[w].st # "run"

\* The tasks of worker w in a history h of [w, task] entries, in order.
TasksOf(h, w) ==
    LET RECURSIVE Pick(_)
        Pick(k) == IF k = 0 THEN <<>>
                   ELSE IF h[k].w = w THEN Append(Pick(k - 1), h[k].task)
                        ELSE Pick(k - 1)
    IN Pick(Len(h))

\* C30: with several goroutines in Submit, the index a Submit uses lies
\* within b.workers, every worker an expansion appended stays in b.workers,
\* every task that was placed is in exactly one inbox or was run exactly
\* once, and each worker ran its tasks in the order they entered its inbox.
C30_ConcurrentSubmit ==
    cbal # <<>> =>
       /\ \A c \in Callers :
             csub[c].pc = "select" => csub[c].idx < Len(cbal.workers)
       /\ clog.appended \subseteq Range(cbal.workers)
       /\ \A t \in 1..Len(clog.placed) :
             LET runs == {k \in 1..Len(clog.executed) : clog.executed[k].task = t}
             IN IF clog.placed[t] = 0
                THEN ConcInboxesOf(t) = {} /\ runs = {}
                ELSE \/ ConcInboxesOf(t) = {clog.placed[t]} /\ runs = {}
                     \/ /\ ConcInboxesOf(t) = {}
                        /\ Cardinality(runs) = 1
                        /\ \A k \in runs : clog.executed[k].w = clog.placed[t]
       /\ \A w \in WorkerIds :
             LET ran == TasksOf(clog.executed, w)
                 got == TasksOf(clog.sent, w)
             IN Len(ran) <= Len(got) /\ ran = SubSeq(got, 1, Len(ran))

(***************************************************************************)
(*                 Properties of the free-list ObjectPool                  *)
(***************************************************************************)

\* C29: every value GetObj has returned belonged, at the return, to a wrapper
\* marked in use, not on the free list and not checked out to anybody - on
\* the path that creates a wrapper as on the path that takes one from the
\* free list - and every wrapper whose value is checked out and not yet
\* handed to ReleaseObj stays marked in use and off the free list.
C29_CheckedOutIsInUse ==
    /\ \A k \in 1..Len(flog.gets) :
          /\ flog.gets[k].w # 0
          /\ flog.gets[k].inUse
          /\ ~flog.gets[k].inFree
          /\ ~flog.gets[k].heldBefore
    /\ \A w \in CheckedOut :
          /\ fl.pool[w].isUsing
          /\ w \notin Range(fl.FreeList)

(***************************************************************************)
(*            Properties of the keyframe pool and of ZTimer                *)
(***************************************************************************)

\* C25: a ReleaseKeyFrame of a keyframe that was released before, with no
\* GetKeyFrame of it since, returns ErrKeyFrameDoubleRelease; no call
\* panics; and no keyframe is in the pool twice.
C25_DoubleReleaseRefused ==
    /\ NoPanic
    /\ (klog.rel # <<>> /\ klog.rel[1].again) =>
          klog.rel[1].err = "ErrKeyFrameDoubleRelease"
    /\ \A k \in KfIds : InPool(k) <= 1

\* The keyframes some ReleaseKeyFrame call is working on.
BeingReleased ==
    {kcall[c].k : c \in {d \in Callers : kcall[d].pc \in {"rel.put", "rel.clear"}}}

\* C27: a keyframe that a completed release has put back into the pool is in
\* the state OnRelease leaves (Time 0, no action, not triggered), and every
\* keyframe GetKeyFrame(time, action) returned had IsTrigger == false,
\* Time == time and Action == action at the return.
C27_PoolRoundTrip ==
    /\ \A k \in KfIds :
          (InPool(k) > 0 /\ klog.since[k] > 0 /\ k \notin BeingReleased) =>
             kfs[k] = KeyFrame_OnRelease(kfs[k])
    /\ klog.get # <<>> => (~klog.get[1].IsTrigger /\ klog.get[1].asAsked)

\* C26: a step in which AddKeyFrame is called with a non-positive time, with
\* a nil action or on a running timer (klog.add.refuse) returns an error and
\* changes neither the timer (its keyframe list, its running flag) nor the
\* keyframe pool nor any keyframe, and the caller is back from the call.
C26_AddKeyFrameRejectsFirst ==
    [][(klog'.add.n # klog.add.n /\ klog'.add.refuse) =>
          /\ klog'.add.err # "nil"
          /\ zt' = zt
          /\ kfp' = kfp
          /\ kfs' = kfs
          /\ kcall' = kcall]_vars

\* C26 witness: AddKeyFrame has just been refused on a running timer that
\* holds a keyframe, with a keyframe waiting in the pool's hot cache.
C26_Witness ==
    /\ zt # <<>>
    /\ zt.isRun
    /\ Len(zt.keyFrames) > 0
    /\ klog.add.err = "ErrTimerAlreadyRunning"
    /\ kfp # <<>>
    /\ Len(kfp.gop.hotCache) > 0

\* Caller c is in a StopTimer call it made on a running timer.
InStopTimer(c) ==
    /\ kcall[c].op = "StopTimer"
    /\ kcall[c].pc # "idle"
    /\ kcall[c].pc = "stop.Lock" => zt.isRun

\* C31: a StopTimer call made on a running timer returns in the end,
\* whatever the update loop does meanwhile, and at every return of such a
\* call no update loop is left, the timer is not running and every keyframe
\* the timer held is in the keyframe pool.
C31_StopTimerReturns ==
    /\ \A c \in Callers : InStopTimer(c) ~> (kcall[c].pc = "idle")
    /\ [](klog.stop # <<>> =>
            /\ klog.stop[1].loops = 0
            /\ ~klog.stop[1].isRun
            /\ klog.stop[1].pooled)

\* A StopTimer call on a running timer has returned with every update loop
\* gone, the timer stopped and its keyframes in the pool, after a tick of
\* the update loop.
C31_Returned ==
    /\ klog.stop # <<>>
    /\ klog.stop[1].loops = 0
    /\ ~klog.stop[1].isRun
    /\ klog.stop[1].pooled
    /\ zt.currentTimer > 0

\* The safety half of C31: what holds at the return of StopTimer.
StopTimerReturnState ==
    klog.stop # <<>> =>
       /\ klog.stop[1].loops = 0
       /\ ~klog.stop[1].isRun
       /\ klog.stop[1].pooled

\* C32: once an Update of a started non-looping timer has found
\* currentTimer > maxTimer + OffsetTime, in the end the timer is not running
\* and no update loop is left, however the ticks of the loop and the
\* goroutine of safeStop interleave; and a non-looping timer starts the
\* action of each keyframe at most once.
C32_NonLoopingTimerStops ==
    /\ (zt # <<>> /\ ~zt.IsLoop /\ klog.over)
          ~> (zt # <<>> /\ ~zt.isRun /\ zt.loops = <<>>)
    /\ [](zt # <<>> /\ ~zt.IsLoop => \A k \in KfIds : klog.fired[k] <= 1)

\* The safety half of C32: a non-looping timer starts each action at most
\* once.
ActionsStartedOnce ==
    (zt # <<>> /\ ~zt.IsLoop) => \A k \in KfIds : klog.fired[k] <= 1

\* A non-looping timer has passed maxTimer + OffsetTime after starting the
\* action of a keyframe, safeStop's signal was received, and the timer is
\* stopped with no update loop left.
C32_StoppedByItself ==
    /\ zt # <<>>
    /\ ~zt.IsLoop
    /\ klog.over
    /\ klog.sent = <<TRUE>>
    /\ \E k \in KfIds : klog.fired[k] = 1
    /\ ~zt.isRun
    /\ zt.loops = <<>>

\* A non-looping timer has passed maxTimer + OffsetTime and is stopped, but
\* safeStop's signal found no loop in its select and an update loop is left.
C32_SignalDropped ==
    /\ zt # <<>>
    /\ ~zt.IsLoop
    /\ klog.over
    /\ klog.sent = <<FALSE>>
    /\ ~zt.isRun
    /\ zt.loops # <<>>

=============================================================================
